---- MODULE Spec2Model ----
(***************************************************************************)
(* Trade Republic tracker: the streaming clients of the repository and     *)
(* the orchestrator that drives them.                                      *)
(*                                                                         *)
(*  flow = "cli":    src/src/tracker/cli.py main from load_tokens on, over *)
(*                   src/src/tracker/client.py TradeRepublicClient, with a *)
(*                   service that answers page requests and nothing else.  *)
(*  flow = "pager":  the same program from the point where main calls      *)
(*                   fetch_transactions with a refreshed session, with a   *)
(*                   service that may send any frame at any time.          *)
(*  flow = "threaded": src/api/timeline.py TimelineClient over the         *)
(*                   threaded src/api/websocket_client.py WebSocketClient. *)
(*  flow = "callback": src/main.py main from client.connect on, over the   *)
(*                   asyncio src/tr_api/websocket.py WebSocketClient.      *)
(*                                                                         *)
(* The remote service is the environment: it answers the handshake, the    *)
(* page requests it has seen on the wire, and may send any other frame at  *)
(* any time.                                                               *)
(***************************************************************************)
EXTENDS Integers, Sequences, FiniteSets, TLC

VARIABLES
    flow,               \* which entry point of the repository is running
    \* ---- cli.py main / TradeRepublicClient auth state
    mainPc,             \* position of cli.py main
    limit,              \* args.limit
    tokenFile,          \* .tokens.json
    session_token,      \* self.session_token
    refresh_token,      \* self.refresh_token
    process_id,         \* self.process_id
    loadedPair,         \* history: what load_tokens read
    refreshAttempted,   \* history: refresh_session issued its GET
    lastAuth,           \* history: how the latest login, verify_otp or refresh_session ended
    \* ---- the connection
    ws,                 \* self.ws: "none" | "open" | "closed" | "broken" (set, transport lost)
    wsConnected,        \* history: a `connected` frame was read on this connection
    wire,               \* history: frames written to the socket, in order
    inbox,              \* frames sent by the server and not yet read
    hsReplied,          \* the server has answered the connect frame
    sub_id_counter,     \* self.sub_id_counter
    allocated,          \* history: sub ids handed out, in order
    \* ---- fetch_timeline_transactions, one entry per running call
    pagers,             \* the calls
    pc,                 \* position of each call
    all_transactions,
    cursor_after,
    loops,
    sub_id,
    valid_data,
    result,             \* the returned list
    received,           \* history: items of the pages read off the socket, in order
    waitEnd,            \* history: how the wait for each sub id ended
    taken,              \* history: ids of the A frames taken as a wait's result
    lastRead,           \* history: what the frame read last was addressed to
    idle,               \* time the current recv() has been waiting
    waited,             \* time since the sub of the awaited page was sent
    \* ---- the two WebSocketClient classes and their users
    connected,          \* self.connected
    subscriptions,      \* self.subscriptions: the ids with a callback registered
    lock,               \* self.lock: "free" or the thread that holds it
    tpc,                \* position of the main thread (task) and of the reader
    local,              \* locals of subscribe / _on_message in each thread
    msg,                \* the payload handed to the callback
    transactions,       \* TimelineClient.transactions, main.py all_transactions
    cursor,             \* TimelineClient.cursor
    calls,              \* get_transactions calls made
    delivered,          \* history: number of callback runs
    errored,            \* history: the first registered id an E frame was read for, or 0
    txn,                \* the raw item handed to TimelineManager.classify
    category,           \* what classify returned for it
    fetched,            \* TimelineManager.transactions, as fetch_transactions left it
    normalized,         \* what filter_all_classified returned for it
    refed               \* what it returns when those rows are its transactions

authVars == <<mainPc, limit, tokenFile, session_token, refresh_token, process_id,
              loadedPair, refreshAttempted, lastAuth>>
connVars == <<ws, wsConnected, wire, inbox, hsReplied, sub_id_counter, allocated>>
pagerVars == <<pagers, pc, all_transactions, cursor_after, loops, sub_id, valid_data,
               result, received, waitEnd, taken, lastRead, idle, waited>>
muxVars == <<connected, subscriptions, lock, tpc, local, msg, transactions, cursor,
             calls, delivered, errored>>
itemVars == <<txn, category, fetched, normalized, refed>>
vars == <<flow, authVars, connVars, pagerVars, muxVars, itemVars>>

----------------------------------------------------------------------------
(* Bounds of the model *)

MaxItems == 3       \* items in the server's timeline
MaxPageLen == 2     \* items per page
MaxLimit == 3       \* largest args.limit tried
RecvTimeout == 1    \* the 10 s of wait_for(recv), in ticks
MaxCalls == 2       \* get_transactions calls of the threaded client's user
MaxDelivered == 1   \* callback runs after which the service falls silent
MaxFetched == 2     \* raw items in the list filter_all_classified works on

(* Program constants *)

max_loops == 50

----------------------------------------------------------------------------
(* Values *)

None == "None"
Tokens == {"t1", "t2"}

Min(a, b) == IF a < b THEN a ELSE b

NoCursor == 0    \* cursor_after = None; server cursors are 1, 2, ...

\* A decoded JSON payload, by the shapes the code tells apart.
\*   "none"    no third part in the frame
\*   "badjson" text json.loads rejects
\*   "falsy"   null, {}, [], 0, ""
\*   "nonobj"  a non-empty list, string or number
\*   "page"    an object; cur says what "cursors" holds:
\*             "after" (an `after` string), "absent" (no cursors key, {} or
\*             after null), "null" (cursors is null)
Payload(shape, items, cur, after) ==
    [shape |-> shape, items |-> items, cur |-> cur, after |-> after]
NoPayload == Payload("none", <<>>, "absent", NoCursor)
NoData == Payload("None", <<>>, "absent", NoCursor)   \* valid_data = None

\* An inbound frame. form: "connected" | "rejected" (handshake replies),
\* "echo", "short" (fewer than two tokens), "oob" (first token not an
\* integer), "reply" (<id> <kind> [payload]).
Frame(form, id, kind, pl) == [form |-> form, id |-> id, kind |-> kind, pl |-> pl]
Ctl(form) == Frame(form, 0, "-", NoPayload)

\* An outbound frame.
Out(op, id, after) == [op |-> op, id |-> id, after |-> after]

Range(s) == {s[i] : i \in 1..Len(s)}
Interval(a, b) == [i \in 1..(b - a + 1) |-> a + i - 1]
CountOut(op, id) == Cardinality({i \in 1..Len(wire) : wire[i].op = op /\ wire[i].id = id})
IndexOut(op, id) == CHOOSE i \in 1..Len(wire) : wire[i].op = op /\ wire[i].id = id

----------------------------------------------------------------------------
(* cli.py main, fetch mode: the auth logic over TradeRepublicClient *)

TokenFile(state, s, r) == [state |-> state, session |-> s, refresh |-> r]

\* _update_tokens_from_response: a cookie replaces the token, no cookie keeps it
UpdateToken(old, cookie) == IF cookie # None THEN cookie ELSE old

\* _save_tokens: open(".tokens.json", "w") empties the file in place, then
\* json.dump writes into it. A process killed in between leaves a file that
\* is empty or ends inside the JSON text: json.load rejects both.
SaveTokens(old, s, r, killed) ==
    IF killed THEN TokenFile("corrupt", None, None) ELSE TokenFile("ok", s, r)

\* mutant: a file that cannot be read clears the tokens in memory
load_tokens_reset(file, s, r) ==
    IF file.state = "ok" THEN [session |-> file.session, refresh |-> file.refresh]
    ELSE [session |-> None, refresh |-> None]

\* TradeRepublicClient.load_tokens: the pair in memory after the call. A
\* missing file is logged; a file json.load rejects is caught and logged.
load_tokens(file, s, r) ==
    IF file.state = "ok" THEN [session |-> file.session, refresh |-> file.refresh]
    ELSE [session |-> s, refresh |-> r]

\* tr_api Auth.load_tokens: True with the file's pair, False without a file;
\* json.load on a file it rejects raises out of the call
Auth_load_tokens(file, s, r) ==
    CASE file.state = "ok" ->
           [out |-> "True", session |-> file.session, refresh |-> file.refresh]
      [] file.state = "missing" -> [out |-> "False", session |-> s, refresh |-> r]
      [] OTHER -> [out |-> "raised", session |-> s, refresh |-> r]

\* load_tokens, then the branch of main on client.session_token
MainLoadTokens ==
    /\ flow \in {"cli", "pager"} /\ mainPc = "load"
    /\ LET s == load_tokens(tokenFile, session_token, refresh_token).session
           r == load_tokens(tokenFile, session_token, refresh_token).refresh
       IN /\ session_token' = s
          /\ refresh_token' = r
          /\ loadedPair' = [session |-> s, refresh |-> r]
          /\ mainPc' = IF s = None THEN "login" ELSE "refresh"
    /\ UNCHANGED <<flow, itemVars, muxVars, limit, tokenFile, process_id, refreshAttempted, lastAuth, connVars, pagerVars>>

\* load_tokens called on a client that holds any pair in memory
ClientLoadTokens ==
    /\ flow = "load" /\ mainPc = "client"
    /\ LET l == load_tokens(tokenFile, session_token, refresh_token)
       IN /\ session_token' = l.session
          /\ refresh_token' = l.refresh
          /\ loadedPair' = [session |-> l.session, refresh |-> l.refresh]
          /\ mainPc' = "None"                       \* the method returns nothing
    /\ UNCHANGED <<flow, itemVars, muxVars, limit, tokenFile, process_id, refreshAttempted, lastAuth, connVars, pagerVars>>

\* Auth.load_tokens called on an Auth that holds any pair in memory
AuthLoadTokens ==
    /\ flow = "load" /\ mainPc = "auth"
    /\ LET l == Auth_load_tokens(tokenFile, session_token, refresh_token)
       IN /\ session_token' = l.session
          /\ refresh_token' = l.refresh
          /\ loadedPair' = [session |-> l.session, refresh |-> l.refresh]
          /\ mainPc' = l.out
    /\ UNCHANGED <<flow, itemVars, muxVars, limit, tokenFile, process_id, refreshAttempted, lastAuth, connVars, pagerVars>>

\* mutant: the cookies are taken before raise_for_status
MainLogin_updateFirst ==
    /\ flow \in {"cli", "pager"} /\ mainPc = "login"
    /\ \E ok \in BOOLEAN, cs \in {None, "t2"}, cr \in {None, "t2"},
          pid \in {None, "p1"}, otp \in BOOLEAN :
          IF ~ok
          THEN /\ mainPc' = "close"                 \* HTTP error raised to main
               /\ lastAuth' = "login_failed"
               /\ session_token' = UpdateToken(session_token, cs)
               /\ refresh_token' = UpdateToken(refresh_token, cr)
               /\ UNCHANGED process_id
          ELSE /\ session_token' = UpdateToken(session_token, cs)
               /\ refresh_token' = UpdateToken(refresh_token, cr)
               /\ process_id' = pid
               /\ lastAuth' = "login_ok"
               /\ mainPc' = IF otp THEN "otp" ELSE "close"
    /\ UNCHANGED <<flow, itemVars, muxVars, limit, tokenFile, loadedPair, refreshAttempted, connVars, pagerVars>>

\* client.login, then main's check that an OTP is at hand
MainLogin ==
    /\ flow \in {"cli", "pager"} /\ mainPc = "login"
    /\ \E ok \in BOOLEAN, cs \in {None, "t2"}, cr \in {None, "t2"},
          pid \in {None, "p1"}, otp \in BOOLEAN :
          IF ~ok
          THEN /\ mainPc' = "close"                 \* HTTP error raised to main
               /\ lastAuth' = "login_failed"
               /\ UNCHANGED <<session_token, refresh_token, process_id>>
          ELSE /\ session_token' = UpdateToken(session_token, cs)
               /\ refresh_token' = UpdateToken(refresh_token, cr)
               /\ process_id' = pid
               /\ lastAuth' = "login_ok"
               /\ mainPc' = IF otp THEN "otp" ELSE "close"
    /\ UNCHANGED <<flow, itemVars, muxVars, limit, tokenFile, loadedPair, refreshAttempted, connVars, pagerVars>>

\* client.verify_otp
MainVerifyOtp ==
    /\ flow \in {"cli", "pager"} /\ mainPc = "otp"
    /\ \E ok \in BOOLEAN, cs \in {None, "t2"}, cr \in {None, "t2"}, killed \in BOOLEAN :
          IF process_id = None \/ ~ok
          THEN /\ mainPc' = "close"                 \* ValueError or HTTP error
               /\ lastAuth' = IF process_id = None THEN "otp_noprocess" ELSE "otp_failed"
               /\ UNCHANGED <<session_token, refresh_token, tokenFile>>
          ELSE LET s == UpdateToken(session_token, cs)
                   r == UpdateToken(refresh_token, cr)
                   saves == s # None /\ r # None
               IN /\ session_token' = s
                  /\ lastAuth' = "otp_ok"
                  /\ refresh_token' = r
                  /\ tokenFile' = IF saves THEN SaveTokens(tokenFile, s, r, killed)
                                           ELSE tokenFile
                  /\ mainPc' = IF saves /\ killed THEN "killed" ELSE "fetch"
    /\ UNCHANGED <<flow, itemVars, muxVars, limit, process_id, loadedPair, refreshAttempted, connVars, pagerVars>>

\* client.refresh_session, and main's fallback to a re-login when it raises
MainRefresh ==
    /\ flow \in {"cli", "pager"} /\ mainPc = "refresh"
    /\ IF refresh_token = None
       THEN /\ mainPc' = "fetch"                    \* warning, plain return
            /\ lastAuth' = "refresh_skipped"
            /\ UNCHANGED <<session_token, refresh_token, tokenFile, refreshAttempted>>
       ELSE /\ refreshAttempted' = TRUE
            /\ \E ok \in BOOLEAN, cs \in {None, "t2"}, cr \in {None, "t2"},
                  killed \in BOOLEAN :
                  IF ~ok
                  THEN /\ mainPc' = "login"
                       /\ lastAuth' = "refresh_failed"
                       /\ UNCHANGED <<session_token, refresh_token, tokenFile>>
                  ELSE LET s == UpdateToken(session_token, cs)
                           r == UpdateToken(refresh_token, cr)
                       IN /\ session_token' = s
                          /\ lastAuth' = "refresh_ok"
                          /\ refresh_token' = r
                          /\ tokenFile' = SaveTokens(tokenFile, s, r, killed)
                          /\ mainPc' = IF killed THEN "killed" ELSE "fetch"
    /\ UNCHANGED <<flow, itemVars, muxVars, limit, process_id, loadedPair, connVars, pagerVars>>

\* the program is started again after a kill: __init__, main about to call
\* load_tokens on the file the killed run left
MainRestart ==
    /\ flow \in {"cli", "pager"} /\ mainPc = "killed"
    /\ mainPc' = "load"
    /\ session_token' = None /\ refresh_token' = None /\ process_id' = None
    /\ loadedPair' = [session |-> None, refresh |-> None]
    /\ refreshAttempted' = FALSE
    /\ lastAuth' = "none"
    /\ UNCHANGED <<flow, itemVars, muxVars, limit, tokenFile, connVars, pagerVars>>

\* timeline.fetch_transactions(limit=args.limit): the pager call starts
MainFetch ==
    /\ flow \in {"cli", "pager"} /\ mainPc = "fetch"
    /\ mainPc' = "fetching"
    /\ pc' = [p \in pagers |-> "start"]
    /\ UNCHANGED <<flow, itemVars, muxVars, limit, tokenFile, session_token, refresh_token, process_id,
                   loadedPair, refreshAttempted, lastAuth, connVars, pagers, all_transactions,
                   cursor_after, loops, sub_id, valid_data, result, received, waitEnd,
                   taken, lastRead, idle, waited>>

\* the call has returned or raised; main goes on to its finally clause
MainAfterFetch ==
    /\ flow \in {"cli", "pager"} /\ mainPc = "fetching"
    /\ \A p \in pagers : pc[p] \in {"done", "raised"}
    /\ mainPc' = "close"
    /\ UNCHANGED <<flow, itemVars, muxVars, limit, tokenFile, session_token, refresh_token, process_id,
                   loadedPair, refreshAttempted, lastAuth, connVars, pagerVars>>

\* client.close
MainClose ==
    /\ flow \in {"cli", "pager"} /\ mainPc = "close"
    /\ ws' = IF ws \in {"open", "broken"} THEN "closed" ELSE ws
    /\ mainPc' = "done"
    /\ UNCHANGED <<flow, itemVars, muxVars, limit, tokenFile, session_token, refresh_token, process_id,
                   loadedPair, refreshAttempted, lastAuth, wsConnected, wire, inbox,
                   hsReplied, sub_id_counter, allocated, pagerVars>>

----------------------------------------------------------------------------
(* TradeRepublicClient: ws_connect, _ws_subscribe, _ws_unsubscribe *)

\* mutant: the session check left out
SessionMissing_unchecked == FALSE

\* ws_connect's guard: `if not self.session_token: raise ValueError`
SessionMissing == session_token = None

\* `if not self.ws` in fetch_timeline_transactions, _ws_subscribe, _ws_unsubscribe
NoSocket == ws = "none"

\* `"connected" in response`
IsConnectedReply(f) == f.form = "connected"

\* mutant: the id is read before the increment is stored
NextSubId_stale(counter) == IF counter = 0 THEN 1 ELSE counter

\* `self.sub_id_counter += 1; sub_id = self.sub_id_counter`
NextSubId(counter) == counter + 1

\* the sub frame of _ws_subscribe; payload["after"] only when cursor_after is truthy
SubFrame(id, after) == Out("sub", id, IF after # NoCursor THEN after ELSE NoCursor)

\* the frames _ws_unsubscribe writes for one call: none without a socket
UnsubFrames(id) == IF NoSocket THEN <<>> ELSE <<Out("unsub", id, NoCursor)>>

\* ws_connect, first half: the session check, then websockets.connect
WsConnectOpen(p) ==
    /\ pc[p] = "connect"
    /\ IF SessionMissing
       THEN /\ pc' = [pc EXCEPT ![p] = "raised"]
            /\ UNCHANGED <<ws, wsConnected>>
       ELSE \E ok \in BOOLEAN :
              IF ok
              THEN /\ ws' = "open"
                   /\ wsConnected' = FALSE
                   /\ pc' = [pc EXCEPT ![p] = "sendconnect"]
              ELSE /\ pc' = [pc EXCEPT ![p] = "raised"]   \* connection refused
                   /\ UNCHANGED <<ws, wsConnected>>
    /\ UNCHANGED <<flow, itemVars, muxVars, authVars, hsReplied, wire, inbox, sub_id_counter, allocated, pagers,
                   all_transactions, cursor_after, loops, sub_id, valid_data, result,
                   received, waitEnd, taken, lastRead,
                   idle, waited>>

\* ws_connect: `await self.ws.send(self.CONNECT_MSG)`
WsConnectSend(p) ==
    /\ pc[p] = "sendconnect"
    /\ wire' = Append(wire, Out("connect", 0, NoCursor))
    /\ pc' = [pc EXCEPT ![p] = "handshake"]
    /\ UNCHANGED <<flow, itemVars, muxVars, authVars, hsReplied, ws, wsConnected, inbox, sub_id_counter, allocated,
                   pagers, all_transactions, cursor_after, loops, sub_id, valid_data,
                   result, received, waitEnd, taken, lastRead,
                   idle, waited>>

\* ws_connect: the first frame read is the handshake response; anything but
\* `connected` only logs a warning and ws_connect returns normally
WsHandshakeRecv(p) ==
    /\ pc[p] = "handshake"
    /\ inbox # <<>>
    /\ inbox' = Tail(inbox)
    /\ wsConnected' = IsConnectedReply(Head(inbox))
    /\ pc' = [pc EXCEPT ![p] = "loop"]
    /\ lastRead' = "handshake"
    /\ UNCHANGED <<flow, itemVars, muxVars, authVars, hsReplied, ws, wire, sub_id_counter, allocated, pagers,
                   all_transactions, cursor_after, loops, sub_id, valid_data, result,
                   received, waitEnd, taken, idle, waited>>

\* ws_connect: asyncio.TimeoutError after 10 s without a frame; self.ws stays set
WsHandshakeTimeout(p) ==
    /\ pc[p] = "handshake"
    /\ inbox = <<>>
    /\ pc' = [pc EXCEPT ![p] = "raised"]
    /\ UNCHANGED <<flow, itemVars, muxVars, authVars, connVars, pagers, all_transactions, cursor_after,
                   loops, sub_id, valid_data, result, received, waitEnd, taken, lastRead,
                   idle, waited>>

----------------------------------------------------------------------------
(* TradeRepublicClient.fetch_timeline_transactions *)

\* `return all_transactions[:limit]`
Truncate(items, n) == SubSeq(items, 1, Min(n, Len(items)))

\* mutant: `>` for `>=`
StopAfterPage_strict(after, n, lim) == after = NoCursor \/ n > lim

\* `if not cursor_after or len(all_transactions) >= limit: break`
StopAfterPage(after, n, lim) == after = NoCursor \/ n >= lim

\* `if not valid_data: break`
Falsy(d) == d.shape \in {"None", "none", "falsy"}

\* mutant: the `resp_id != sub_id` test left out
RecvOutcome_anyId(f, id) ==
    IF f.form # "reply" THEN "continue"
    ELSE IF f.kind = "C" THEN "continue"
    ELSE IF f.kind = "E" THEN "break"
    ELSE IF f.kind = "D" THEN "continue"
    ELSE IF f.pl.shape = "badjson" THEN "raise"
    ELSE "break"

\* The inner loop's verdict on one frame while sub `id` is awaited:
\* "continue" (keep reading), "break" (the wait ends), "raise" (json.loads failed)
RecvOutcome(f, id) ==
    IF f.form # "reply" THEN "continue"            \* echo, short, non-integer id
    ELSE IF f.id # id THEN "continue"
    ELSE IF f.kind = "C" THEN "continue"
    ELSE IF f.kind = "E" THEN "break"
    ELSE IF f.kind = "D" THEN "continue"
    ELSE IF f.pl.shape = "badjson" THEN "raise"     \* "A" and the fallback branch
    ELSE "break"

\* what the frame leaves in valid_data
RecvData(f, id) ==
    IF /\ f.form = "reply" /\ f.id = id /\ f.kind \notin {"C", "D", "E"}
       /\ f.pl.shape \notin {"none", "badjson"}
    THEN f.pl ELSE NoData

\* history: a page frame for the awaited id went to the pager
IsPageFor(f, id) ==
    /\ f.form = "reply" /\ f.id = id /\ f.kind \notin {"C", "D", "E"}
    /\ f.pl.shape = "page"

\* how the wait ended, for the history
EndKind(f) == IF f.kind \in {"A", "E"} THEN f.kind ELSE "X"

\* history: whom a frame read off the socket was addressed to. "unknown": the
\* id was never handed out; "closed": its unsub has been sent; "dupA":
\* closed, and an A frame for an id whose wait an A frame already ended;
\* "open": sub sent and no unsub yet; "other": no reply frame.
ReadClass(f) ==
    IF f.form # "reply" THEN "other"
    ELSE IF f.id \notin Range(allocated) THEN "unknown"
    ELSE IF CountOut("unsub", f.id) = 0 THEN "open"
    ELSE IF f.kind = "A" /\ f.id \in 1..Len(waitEnd) /\ waitEnd[f.id] = "A" THEN "dupA"
    ELSE "closed"

\* mutant: the call connects whether or not a socket is there
PagerStart_alwaysConnect(p) ==
    /\ pc[p] = "start"
    /\ pc' = [pc EXCEPT ![p] = "connect"]
    /\ all_transactions' = [all_transactions EXCEPT ![p] = <<>>]
    /\ cursor_after' = [cursor_after EXCEPT ![p] = NoCursor]
    /\ loops' = [loops EXCEPT ![p] = 0]
    /\ UNCHANGED <<flow, itemVars, muxVars, authVars, connVars, pagers, sub_id, valid_data, result,
                   received, waitEnd, taken, lastRead,
                   idle, waited>>

\* entry of the call: `if not self.ws: await self.ws_connect()`
PagerStart(p) ==
    /\ pc[p] = "start"
    /\ pc' = [pc EXCEPT ![p] = IF NoSocket THEN "connect" ELSE "loop"]
    /\ all_transactions' = [all_transactions EXCEPT ![p] = <<>>]
    /\ cursor_after' = [cursor_after EXCEPT ![p] = NoCursor]
    /\ loops' = [loops EXCEPT ![p] = 0]
    /\ UNCHANGED <<flow, itemVars, muxVars, authVars, connVars, pagers, sub_id, valid_data, result,
                   received, waitEnd, taken, lastRead,
                   idle, waited>>

\* self.ws.send on a socket whose transport is lost raises ConnectionClosed
SendRaises == ws = "broken"

\* loop head and _ws_subscribe: the next page's sub frame goes out,
\* or the loop ends at max_loops and the call returns
PagerSubscribe(p) ==
    /\ pc[p] = "loop"
    /\ IF loops[p] < max_loops /\ SendRaises
       THEN LET id == NextSubId(sub_id_counter) IN    \* the id is taken, send raises
            /\ loops' = [loops EXCEPT ![p] = @ + 1]
            /\ sub_id_counter' = id
            /\ allocated' = Append(allocated, id)
            /\ waitEnd' = Append(waitEnd, "unsent")
            /\ pc' = [pc EXCEPT ![p] = "raised"]
            /\ UNCHANGED <<sub_id, wire, valid_data, idle, waited, result>>
       ELSE IF loops[p] < max_loops
       THEN LET id == NextSubId(sub_id_counter) IN
            /\ loops' = [loops EXCEPT ![p] = @ + 1]
            /\ sub_id_counter' = id
            /\ sub_id' = [sub_id EXCEPT ![p] = id]
            /\ allocated' = Append(allocated, id)
            /\ wire' = Append(wire, SubFrame(id, cursor_after[p]))
            /\ valid_data' = [valid_data EXCEPT ![p] = NoData]
            /\ idle' = [idle EXCEPT ![p] = 0]
            /\ waited' = [waited EXCEPT ![p] = 0]
            /\ waitEnd' = Append(waitEnd, "pending")
            /\ pc' = [pc EXCEPT ![p] = "recv"]
            /\ UNCHANGED result
       ELSE /\ result' = [result EXCEPT ![p] = Truncate(all_transactions[p], limit)]
            /\ pc' = [pc EXCEPT ![p] = "done"]
            /\ UNCHANGED <<loops, sub_id_counter, sub_id, allocated, wire, valid_data,
                           idle, waited, waitEnd>>
    /\ UNCHANGED <<flow, itemVars, muxVars, authVars, hsReplied, ws, wsConnected, inbox, pagers, all_transactions,
                   cursor_after, received, taken, lastRead>>

\* one pass of the inner loop: wait_for(self.ws.recv(), 10.0) returned a frame
PagerRecv(p) ==
    /\ pc[p] = "recv"
    /\ inbox # <<>>
    /\ LET f == Head(inbox)
           o == RecvOutcome(f, sub_id[p])
       IN /\ inbox' = Tail(inbox)
          /\ idle' = [idle EXCEPT ![p] = 0]        \* the next recv() starts a new 10 s
          /\ valid_data' = [valid_data EXCEPT ![p] =
                               IF o = "break" THEN RecvData(f, sub_id[p]) ELSE @]
          /\ received' = [received EXCEPT ![p] =
                               IF IsPageFor(f, sub_id[p]) THEN @ \o f.pl.items ELSE @]
          /\ waitEnd' = IF o = "continue" THEN waitEnd
                        ELSE [waitEnd EXCEPT ![sub_id[p]] =
                                 IF o = "raise" THEN "raise" ELSE EndKind(f)]
          /\ pc' = [pc EXCEPT ![p] = CASE o = "continue" -> "recv"
                                       [] o = "break" -> "unsub"
                                       [] o = "raise" -> "except"]
          /\ taken' = IF o = "break" /\ f.form = "reply" /\ f.kind = "A"
                       THEN Append(taken, f.id) ELSE taken
          /\ lastRead' = ReadClass(f)
    /\ UNCHANGED <<flow, itemVars, muxVars, authVars, hsReplied, ws, wsConnected, wire, sub_id_counter,
                   allocated, pagers, all_transactions, cursor_after, loops, sub_id,
                   result, waited>>

\* time passes while recv() waits on an empty socket
Tick(p) ==
    /\ pc[p] = "recv"
    /\ inbox = <<>>
    /\ idle[p] < RecvTimeout
    /\ idle' = [idle EXCEPT ![p] = @ + 1]
    /\ waited' = [waited EXCEPT ![p] = Min(@ + 1, RecvTimeout + 1)]
    /\ UNCHANGED <<flow, itemVars, muxVars, authVars, connVars, pagers, pc, all_transactions, cursor_after,
                   loops, sub_id, valid_data, result, received, waitEnd, taken, lastRead>>

\* mutant: after a timeout the page is asked for again
PagerTimeout_retry(p) ==
    /\ pc[p] = "recv"
    /\ inbox = <<>>
    /\ idle[p] = RecvTimeout
    /\ waitEnd' = [waitEnd EXCEPT ![sub_id[p]] = "timeout"]
    /\ pc' = [pc EXCEPT ![p] = "loop"]
    /\ UNCHANGED <<flow, itemVars, muxVars, authVars, connVars, pagers, all_transactions, cursor_after,
                   loops, sub_id, valid_data, result, received, idle, waited, taken, lastRead>>

\* asyncio.TimeoutError in the inner loop: log and break
PagerTimeout(p) ==
    /\ pc[p] = "recv"
    /\ inbox = <<>>
    /\ idle[p] = RecvTimeout
    /\ waitEnd' = [waitEnd EXCEPT ![sub_id[p]] = "timeout"]
    /\ pc' = [pc EXCEPT ![p] = "unsub"]
    /\ UNCHANGED <<flow, itemVars, muxVars, authVars, connVars, pagers, all_transactions, cursor_after,
                   loops, sub_id, valid_data, result, received, idle, waited, taken, lastRead>>

\* `await self._ws_unsubscribe(sub_id)` after the inner loop
PagerUnsub(p) ==
    /\ pc[p] = "unsub"
    /\ IF SendRaises
       THEN /\ pc' = [pc EXCEPT ![p] = "except"]     \* send raises inside the try
            /\ UNCHANGED wire
       ELSE /\ wire' = wire \o UnsubFrames(sub_id[p])
            /\ pc' = [pc EXCEPT ![p] = "process"]
    /\ UNCHANGED <<flow, itemVars, muxVars, authVars, hsReplied, ws, wsConnected, inbox, sub_id_counter, allocated,
                   pagers, all_transactions, cursor_after, loops, sub_id, valid_data,
                   result, received, waitEnd, taken, lastRead,
                   idle, waited>>

\* the page is taken apart: items, cursors, the two break conditions.
\* valid_data.get on a non-object and cursors.get on null raise into the
\* `except Exception` clause of the loop body.
PagerProcess(p) ==
    /\ pc[p] = "process"
    /\ LET d == valid_data[p]
           items == all_transactions[p] \o d.items
           after == IF d.cur = "after" THEN d.after ELSE NoCursor
       IN IF Falsy(d)
          THEN /\ result' = [result EXCEPT ![p] = Truncate(all_transactions[p], limit)]
               /\ pc' = [pc EXCEPT ![p] = "done"]
               /\ UNCHANGED <<all_transactions, cursor_after>>
          ELSE IF d.shape = "nonobj"
          THEN /\ pc' = [pc EXCEPT ![p] = "except"]
               /\ UNCHANGED <<all_transactions, cursor_after, result>>
          ELSE IF d.cur = "null"
          THEN /\ all_transactions' = [all_transactions EXCEPT ![p] = items]
               /\ pc' = [pc EXCEPT ![p] = "except"]
               /\ UNCHANGED <<cursor_after, result>>
          ELSE /\ all_transactions' = [all_transactions EXCEPT ![p] = items]
               /\ cursor_after' = [cursor_after EXCEPT ![p] = after]
               /\ IF StopAfterPage(after, Len(items), limit)
                  THEN /\ result' = [result EXCEPT ![p] = Truncate(items, limit)]
                       /\ pc' = [pc EXCEPT ![p] = "done"]
                  ELSE /\ pc' = [pc EXCEPT ![p] = "loop"]
                       /\ UNCHANGED result
    /\ UNCHANGED <<flow, itemVars, muxVars, authVars, connVars, pagers, loops, sub_id, valid_data,
                   received, waitEnd, taken, lastRead,
                   idle, waited>>

\* recv() raises ConnectionClosed: the transport is lost. It is no
\* TimeoutError, so it leaves the inner loop for `except Exception`.
PagerRecvError(p) ==
    /\ pc[p] = "recv"
    /\ ws = "open" /\ inbox = <<>>
    /\ ws' = "broken"
    /\ waitEnd' = [waitEnd EXCEPT ![sub_id[p]] = "raise"]
    /\ pc' = [pc EXCEPT ![p] = "except"]
    /\ UNCHANGED <<flow, itemVars, muxVars, authVars, hsReplied, wsConnected, wire, inbox,
                   sub_id_counter, allocated, pagers, all_transactions, cursor_after,
                   loops, sub_id, valid_data, result, received, taken, lastRead, idle,
                   waited>>

\* Two calls share the socket: recv() called while another call is blocked
\* in recv() raises (websockets allows one reader at a time). The error is
\* no TimeoutError, so the call goes to `except Exception`.
PagerRecvBusy(p) ==
    /\ pc[p] = "recv"
    /\ \E q \in pagers \ {p} : pc[q] = "recv"
    /\ waitEnd' = [waitEnd EXCEPT ![sub_id[p]] = "raise"]
    /\ pc' = [pc EXCEPT ![p] = "except"]
    /\ UNCHANGED <<flow, itemVars, muxVars, authVars, connVars, pagers, all_transactions,
                   cursor_after, loops, sub_id, valid_data, result, received, taken,
                   lastRead, idle, waited>>

\* `except Exception`: log, _ws_unsubscribe(sub_id), break, return. On a lost
\* transport the unsub's send raises out of the handler and of the call.
PagerExcept(p) ==
    /\ pc[p] = "except"
    /\ IF SendRaises
       THEN /\ pc' = [pc EXCEPT ![p] = "raised"]
            /\ UNCHANGED <<wire, result>>
       ELSE /\ wire' = wire \o UnsubFrames(sub_id[p])
            /\ result' = [result EXCEPT ![p] = Truncate(all_transactions[p], limit)]
            /\ pc' = [pc EXCEPT ![p] = "done"]
    /\ UNCHANGED <<flow, itemVars, muxVars, authVars, hsReplied, ws, wsConnected, inbox, sub_id_counter, allocated,
                   pagers, all_transactions, cursor_after, loops, sub_id, valid_data,
                   received, waitEnd, taken, lastRead,
                   idle, waited>>

----------------------------------------------------------------------------
(* api/websocket_client.py WebSocketClient (threads) under api/timeline.py *)

Threads == {"main", "reader"}

Local(id, after, mid) == [sub_id |-> id, after |-> after, msg_id |-> mid]

\* `with self.lock:` can be entered
LockFree == lock = "free"

\* mutant: an E frame is dispatched like an A frame
LookupKinds_withE == {"A", "E"}

\* `if state == "A":` the one kind _on_message looks a callback up for
LookupKinds == {"A"}

\* mutant: every id finds a callback
Registered_any(id) == TRUE

\* `self.subscriptions.get(msg_id)` is a callback, `sub_id in self.subscriptions`
Registered(id) == id \in subscriptions

\* what a callback finds in an A frame's payload. json.loads rejects an empty
\* or malformed text; .get raises on null, a list, a string or a number; of
\* the falsy payloads only {} is an object. "raise_late" is cursors.get on a
\* null `cursors`, after the items were taken.
CallbackOutcomes(d) ==
    CASE d.shape \in {"none", "badjson", "nonobj"} -> {"raise"}
      [] d.shape = "falsy" -> {"raise", "end"}
      [] d.shape = "page" /\ d.cur = "null" -> {"raise_late"}
      [] d.shape = "page" /\ d.cur = "after" -> {"more"}
      [] OTHER -> {"end"}

\* WebSocketClient.connect: the app object is made and its thread started
ThConnect ==
    /\ flow = "threaded" /\ tpc["main"] = "new"
    /\ tpc' = [tpc EXCEPT !["main"] = "waitopen", !["reader"] = "opening"]
    /\ UNCHANGED <<flow, itemVars, errored, authVars, connVars, pagerVars, connected, subscriptions, lock,
                   local, msg, transactions, cursor, calls, delivered>>

\* run_forever reaches the server and calls _on_open, which sends `connect`
\* and sets self.connected at once; or it fails and _on_close runs
ThOnOpen ==
    /\ flow = "threaded" /\ tpc["reader"] = "opening"
    /\ \E ok \in BOOLEAN :
          IF ok
          THEN /\ ws' = "open"
               /\ wsConnected' = FALSE
               /\ wire' = Append(wire, Out("connect", 0, NoCursor))
               /\ connected' = TRUE
               /\ tpc' = [tpc EXCEPT !["reader"] = "idle"]
          ELSE /\ connected' = FALSE
               /\ tpc' = [tpc EXCEPT !["reader"] = "dead"]
               /\ UNCHANGED <<ws, wsConnected, wire>>
    /\ UNCHANGED <<flow, itemVars, errored, authVars, inbox, hsReplied, sub_id_counter, allocated, pagerVars,
                   subscriptions, lock, local, msg, transactions, cursor, calls,
                   delivered>>

\* connect's polling loop ends: self.connected is set, or the 10 s are over
ThConnectWait ==
    /\ flow = "threaded" /\ tpc["main"] = "waitopen"
    /\ tpc' = [tpc EXCEPT !["main"] = IF connected THEN "ready" ELSE "raised"]
    /\ UNCHANGED <<flow, itemVars, errored, authVars, connVars, pagerVars, connected, subscriptions, lock,
                   local, msg, transactions, cursor, calls, delivered>>

\* TimelineClient.get_transactions calls subscribe with {"after": self.cursor}
ThGetTransactions ==
    /\ flow = "threaded" /\ tpc["main"] = "ready"
    /\ calls < MaxCalls
    /\ calls' = calls + 1
    /\ local' = [local EXCEPT !["main"] = Local(0, cursor, 0)]
    /\ tpc' = [tpc EXCEPT !["main"] = "sub"]
    /\ UNCHANGED <<flow, itemVars, errored, authVars, connVars, pagerVars, connected, subscriptions, lock,
                   msg, transactions, cursor, delivered>>

\* subscribe: `with self.lock:` entered
ThSubLock(t) ==
    /\ flow = "threaded" /\ tpc[t] = "sub"
    /\ LockFree
    /\ lock' = t
    /\ tpc' = [tpc EXCEPT ![t] = "sub_locked"]
    /\ UNCHANGED <<flow, itemVars, errored, authVars, connVars, pagerVars, connected, subscriptions, local,
                   msg, transactions, cursor, calls, delivered>>

\* mutant: the id is taken, the callback is not put in the table
ThSubAlloc_unregistered(t) ==
    /\ flow = "threaded" /\ tpc[t] = "sub_locked"
    /\ LET id == NextSubId(sub_id_counter) IN
          /\ sub_id_counter' = id
          /\ local' = [local EXCEPT ![t].sub_id = id]
          /\ subscriptions' = subscriptions
          /\ allocated' = Append(allocated, id)
    /\ lock' = "free"
    /\ tpc' = [tpc EXCEPT ![t] = "sub_send"]
    /\ UNCHANGED <<flow, itemVars, errored, authVars, ws, wsConnected, wire, inbox, hsReplied, pagerVars,
                   connected, msg, transactions, cursor, calls, delivered>>

\* subscribe, under the lock: the id is taken, the callback registered
ThSubAlloc(t) ==
    /\ flow = "threaded" /\ tpc[t] = "sub_locked"
    /\ LET id == NextSubId(sub_id_counter) IN
          /\ sub_id_counter' = id
          /\ local' = [local EXCEPT ![t].sub_id = id]
          /\ subscriptions' = subscriptions \cup {id}
          /\ allocated' = Append(allocated, id)
    /\ lock' = "free"
    /\ tpc' = [tpc EXCEPT ![t] = "sub_send"]
    /\ UNCHANGED <<flow, itemVars, errored, authVars, ws, wsConnected, wire, inbox, hsReplied, pagerVars,
                   connected, msg, transactions, cursor, calls, delivered>>

\* subscribe: the sub frame is sent outside the lock. The main thread returns
\* to get_transactions' sleep, the reader to _on_message's unsubscribe.
ThSubSend(t) ==
    /\ flow = "threaded" /\ tpc[t] = "sub_send"
    /\ IF SendRaises
       THEN /\ tpc' = [tpc EXCEPT ![t] = "raised"]              \* out of get_transactions
            /\ UNCHANGED wire
       ELSE /\ wire' = Append(wire, SubFrame(local[t].sub_id, local[t].after))
            /\ tpc' = [tpc EXCEPT ![t] = IF t = "main" THEN "sleep" ELSE "cb_unsub"]
    /\ local' = [local EXCEPT ![t] = Local(0, NoCursor, @.msg_id)]   \* subscribe returns
    /\ UNCHANGED <<flow, itemVars, errored, authVars, ws, wsConnected, inbox, hsReplied, sub_id_counter,
                   allocated, pagerVars, connected, subscriptions, lock, msg,
                   transactions, cursor, calls, delivered>>

\* get_transactions: time.sleep(2) is over, self.transactions is returned
ThSleepDone ==
    /\ flow = "threaded" /\ tpc["main"] = "sleep"
    /\ tpc' = [tpc EXCEPT !["main"] = "ready"]
    /\ UNCHANGED <<flow, itemVars, errored, authVars, connVars, pagerVars, connected, subscriptions, lock,
                   local, msg, transactions, cursor, calls, delivered>>

\* mutant: the callback is called inside `with self.lock:`
ThOnMessage_underLock ==
    /\ flow = "threaded" /\ tpc["reader"] = "idle"
    /\ inbox # <<>>
    /\ LET f == Head(inbox)
           lookup == f.form = "reply" /\ f.kind \in LookupKinds
           hit == lookup /\ Registered(f.id)
       IN /\ lookup => LockFree
          /\ inbox' = Tail(inbox)
          /\ wsConnected' = (wsConnected \/ IsConnectedReply(f))
          /\ IF hit
             THEN /\ msg' = f.pl
                  /\ local' = [local EXCEPT !["reader"].msg_id = f.id]
                  /\ delivered' = delivered + 1
                  /\ tpc' = [tpc EXCEPT !["reader"] = "callback"]
                  /\ lock' = "reader"
             ELSE UNCHANGED <<msg, local, delivered, tpc, lock>>
          /\ errored' = IF errored = 0 /\ f.form = "reply" /\ f.kind = "E" /\ Registered(f.id)
                         THEN f.id ELSE errored
    /\ UNCHANGED <<flow, itemVars, authVars, ws, wire, hsReplied, sub_id_counter, allocated,
                   pagerVars, connected, subscriptions, transactions, cursor, calls>>

\* _on_message up to the callback: only an A frame is looked up, under the
\* lock, and only a registered id has a callback
ThOnMessage ==
    /\ flow = "threaded" /\ tpc["reader"] = "idle"
    /\ inbox # <<>>
    /\ LET f == Head(inbox)
           lookup == f.form = "reply" /\ f.kind \in LookupKinds
           hit == lookup /\ Registered(f.id)
       IN /\ lookup => LockFree
          /\ inbox' = Tail(inbox)
          /\ wsConnected' = (wsConnected \/ IsConnectedReply(f))
          /\ IF hit
             THEN /\ msg' = f.pl
                  /\ local' = [local EXCEPT !["reader"].msg_id = f.id]
                  /\ delivered' = delivered + 1
                  /\ tpc' = [tpc EXCEPT !["reader"] = "callback"]
             ELSE UNCHANGED <<msg, local, delivered, tpc>>
          /\ errored' = IF errored = 0 /\ f.form = "reply" /\ f.kind = "E" /\ Registered(f.id)
                         THEN f.id ELSE errored
    /\ UNCHANGED <<flow, itemVars, authVars, ws, wire, hsReplied, sub_id_counter, allocated,
                   pagerVars, connected, subscriptions, lock, transactions, cursor, calls>>

\* TimelineClient._on_transactions_received. An exception leaves _on_message
\* before its unsubscribe; the websocket library logs it and reads on.
ThCallback ==
    /\ flow = "threaded" /\ tpc["reader"] = "callback"
    /\ \E o \in CallbackOutcomes(msg) :
          CASE o = "raise" ->
                 /\ tpc' = [tpc EXCEPT !["reader"] = "idle"]
                 /\ local' = [local EXCEPT !["reader"] = Local(0, NoCursor, 0)]
                 /\ UNCHANGED <<transactions, cursor>>
            [] o = "raise_late" ->
                 /\ transactions' = transactions \o msg.items
                 /\ tpc' = [tpc EXCEPT !["reader"] = "idle"]
                 /\ local' = [local EXCEPT !["reader"] = Local(0, NoCursor, 0)]
                 /\ UNCHANGED cursor
            [] o = "more" ->
                 /\ transactions' = transactions \o msg.items
                 /\ cursor' = msg.after
                 /\ local' = [local EXCEPT !["reader"].after = msg.after]
                 /\ tpc' = [tpc EXCEPT !["reader"] = "sub"]
            [] o = "end" ->
                 /\ transactions' = transactions \o msg.items
                 /\ cursor' = NoCursor
                 /\ tpc' = [tpc EXCEPT !["reader"] = "cb_unsub"]
                 /\ UNCHANGED local
    /\ msg' = NoPayload                             \* the callback has returned
    /\ UNCHANGED <<flow, itemVars, errored, authVars, connVars, pagerVars, connected, subscriptions, lock,
                   calls, delivered>>

\* the transport is lost while run_forever reads: _on_error prints, _on_close
\* sets self.connected = False, the reader thread ends
ThTransportError ==
    /\ flow = "threaded" /\ tpc["reader"] = "idle"
    /\ ws = "open" /\ inbox = <<>>
    /\ ws' = "broken"
    /\ connected' = FALSE
    /\ tpc' = [tpc EXCEPT !["reader"] = "dead"]
    /\ UNCHANGED <<flow, itemVars, errored, authVars, wsConnected, wire, inbox, hsReplied,
                   sub_id_counter, allocated, pagerVars, subscriptions, lock, local, msg,
                   transactions, cursor, calls, delivered>>

\* unsubscribe, under the lock: the id leaves the table
ThUnsubDelete ==
    /\ flow = "threaded" /\ tpc["reader"] = "cb_unsub"
    /\ LockFree
    /\ subscriptions' = subscriptions \ {local["reader"].msg_id}
    /\ tpc' = [tpc EXCEPT !["reader"] = "unsub_send"]
    /\ UNCHANGED <<flow, itemVars, errored, authVars, connVars, pagerVars, connected, lock, local, msg,
                   transactions, cursor, calls, delivered>>

\* unsubscribe: the unsub frame is sent outside the lock
ThUnsubSend ==
    /\ flow = "threaded" /\ tpc["reader"] = "unsub_send"
    /\ wire' = Append(wire, Out("unsub", local["reader"].msg_id, NoCursor))
    /\ tpc' = [tpc EXCEPT !["reader"] = "idle"]
    /\ local' = [local EXCEPT !["reader"] = Local(0, NoCursor, 0)]   \* _on_message returns
    /\ UNCHANGED <<flow, itemVars, errored, authVars, ws, wsConnected, inbox, hsReplied, sub_id_counter,
                   allocated, pagerVars, connected, subscriptions, lock, msg,
                   transactions, cursor, calls, delivered>>

----------------------------------------------------------------------------
(* tr_api/websocket.py WebSocketClient (asyncio) under main.py *)

\* subscribe's and unsubscribe's guard: `not self.ws or not self.connected`
NotConnected == NoSocket \/ ~connected

\* connect, first half: websockets.connect, self.connected = True, `connect` sent
CbConnect ==
    /\ flow = "callback" /\ tpc["main"] = "new"
    /\ \E ok \in BOOLEAN :
          IF ok
          THEN /\ ws' = "open"
               /\ wsConnected' = FALSE
               /\ connected' = TRUE
               /\ wire' = Append(wire, Out("connect", 0, NoCursor))
               /\ tpc' = [tpc EXCEPT !["main"] = "handshake"]
          ELSE /\ connected' = FALSE                \* connect returns False, main returns
               /\ tpc' = [tpc EXCEPT !["main"] = "done"]
               /\ UNCHANGED <<ws, wsConnected, wire>>
    /\ UNCHANGED <<flow, itemVars, errored, authVars, inbox, hsReplied, sub_id_counter, allocated, pagerVars,
                   subscriptions, lock, local, msg, transactions, cursor, calls,
                   delivered>>

\* connect, second half: the first frame read decides. `connected` starts the
\* listen task; anything else closes the socket and main returns.
CbHandshake ==
    /\ flow = "callback" /\ tpc["main"] = "handshake"
    /\ inbox # <<>>
    /\ inbox' = Tail(inbox)
    /\ wsConnected' = IsConnectedReply(Head(inbox))
    /\ IF IsConnectedReply(Head(inbox))
       THEN /\ tpc' = [tpc EXCEPT !["main"] = "sub", !["reader"] = "idle"]
            /\ UNCHANGED <<ws, connected>>
       ELSE /\ ws' = "closed"
            /\ connected' = FALSE
            /\ tpc' = [tpc EXCEPT !["main"] = "done"]
    /\ UNCHANGED <<flow, itemVars, errored, authVars, wire, hsReplied, sub_id_counter, allocated, pagerVars,
                   subscriptions, lock, local, msg, transactions, cursor, calls,
                   delivered>>

\* main's first client.subscribe; then main sleeps while the listen task works
CbSubscribe ==
    /\ flow = "callback" /\ tpc["main"] = "sub"
    /\ IF NotConnected
       THEN /\ tpc' = [tpc EXCEPT !["main"] = "raised"]
            /\ UNCHANGED <<sub_id_counter, subscriptions, allocated, wire>>
       ELSE LET id == NextSubId(sub_id_counter) IN
            /\ sub_id_counter' = id
            /\ subscriptions' = subscriptions \cup {id}
            /\ allocated' = Append(allocated, id)
            /\ wire' = Append(wire, SubFrame(id, NoCursor))
            /\ tpc' = [tpc EXCEPT !["main"] = "sleep"]
    /\ UNCHANGED <<flow, itemVars, errored, authVars, ws, wsConnected, inbox, hsReplied, pagerVars, connected,
                   lock, local, msg, transactions, cursor, calls, delivered>>

\* one pass of listen, with on_timeline_transactions run to its end: no other
\* task runs meanwhile. A frame for an id that is not in the table is logged
\* and dropped; a JSONDecodeError is caught; any other exception of the
\* callback ends the listen task. Every item of a page is taken to parse
\* (Transaction.from_dict) and is appended.
CbListen ==
    /\ flow = "callback" /\ tpc["reader"] = "idle"
    /\ inbox # <<>>
    /\ LET f == Head(inbox)
           known == f.form = "reply" /\ Registered(f.id)
           id == NextSubId(sub_id_counter)
       IN /\ inbox' = Tail(inbox)
          /\ errored' = IF errored = 0 /\ known /\ f.kind = "E" THEN f.id ELSE errored
          /\ IF ~known \/ f.pl.shape = "badjson"
             THEN UNCHANGED <<delivered, transactions, cursor, tpc, sub_id_counter,
                              subscriptions, allocated, wire>>
             ELSE /\ delivered' = delivered + 1
                  /\ IF f.kind # "A"
                     THEN UNCHANGED <<transactions, cursor, tpc, sub_id_counter,
                                      subscriptions, allocated, wire>>
                     ELSE \E o \in CallbackOutcomes(f.pl) :
                            CASE o = "raise" ->
                                   /\ tpc' = [tpc EXCEPT !["reader"] = "dead"]
                                   /\ UNCHANGED <<transactions, cursor, sub_id_counter,
                                                  subscriptions, allocated, wire>>
                              [] o = "raise_late" ->
                                   /\ transactions' = transactions \o f.pl.items
                                   /\ tpc' = [tpc EXCEPT !["reader"] = "dead"]
                                   /\ UNCHANGED <<cursor, sub_id_counter, subscriptions,
                                                  allocated, wire>>
                              [] o = "more" ->
                                   /\ transactions' = transactions \o f.pl.items
                                   /\ cursor' = f.pl.after
                                   /\ sub_id_counter' = id
                                   /\ allocated' = Append(allocated, id)
                                   /\ subscriptions' = (subscriptions \cup {id}) \ {f.id}
                                   /\ wire' = wire \o <<SubFrame(id, f.pl.after),
                                                        Out("unsub", f.id, NoCursor)>>
                                   /\ UNCHANGED tpc
                              [] o = "end" ->
                                   /\ transactions' = transactions \o f.pl.items
                                   /\ cursor' = NoCursor
                                   /\ UNCHANGED <<tpc, sub_id_counter, subscriptions,
                                                  allocated, wire>>
    /\ UNCHANGED <<flow, itemVars, authVars, ws, wsConnected, hsReplied, pagerVars, connected, lock,
                   local, msg, calls>>

\* the transport is lost while listen reads: ConnectionClosed is caught,
\* self.connected = False, the listen task ends
CbTransportError ==
    /\ flow = "callback" /\ tpc["reader"] = "idle"
    /\ ws = "open" /\ inbox = <<>>
    /\ ws' = "broken"
    /\ connected' = FALSE
    /\ tpc' = [tpc EXCEPT !["reader"] = "dead"]
    /\ UNCHANGED <<flow, itemVars, errored, authVars, wsConnected, wire, inbox, hsReplied,
                   sub_id_counter, allocated, pagerVars, subscriptions, lock, local, msg,
                   transactions, cursor, calls, delivered>>

\* main's sleep loop is over: `finally` closes the socket, the run ends
CbMainEnd ==
    /\ flow = "callback" /\ tpc["main"] = "sleep"
    /\ ws' = "closed"
    /\ tpc' = [tpc EXCEPT !["main"] = "done", !["reader"] = "dead"]
    /\ UNCHANGED <<flow, itemVars, errored, authVars, wsConnected, wire, inbox, hsReplied, sub_id_counter, allocated,
                   pagerVars, connected, subscriptions, lock, local, msg, transactions,
                   cursor, calls, delivered>>

----------------------------------------------------------------------------
(* unsubscribe called on either WebSocketClient by its owner *)

\* the ids a caller passes: 1 is registered at the start, sub_id_counter + 1
\* was never handed out
UnsubArgs == 1..(sub_id_counter + 1)

\* api/websocket_client.py unsubscribe: the id leaves the table if it is in
\* it, under the lock; the unsub frame is sent in either case
ThUnsubscribe(id) ==
    /\ flow = "unsub_th" /\ tpc["main"] = "api"
    /\ calls < MaxCalls
    /\ LockFree
    /\ subscriptions' = IF Registered(id) THEN subscriptions \ {id} ELSE subscriptions
    /\ wire' = Append(wire, Out("unsub", id, NoCursor))
    /\ calls' = calls + 1
    /\ UNCHANGED <<flow, itemVars, errored, authVars, ws, wsConnected, inbox, hsReplied, sub_id_counter,
                   allocated, pagerVars, connected, lock, tpc, local, msg, transactions,
                   cursor, delivered>>

\* tr_api/websocket.py unsubscribe: nothing without a connection; else the
\* unsub frame is sent, then the id leaves the table if it is in it
CbUnsubscribe(id) ==
    /\ flow = "unsub_cb" /\ tpc["main"] = "api"
    /\ calls < MaxCalls
    /\ IF NotConnected
       THEN UNCHANGED <<wire, subscriptions>>
       ELSE /\ wire' = Append(wire, Out("unsub", id, NoCursor))
            /\ subscriptions' = IF Registered(id) THEN subscriptions \ {id}
                                                  ELSE subscriptions
    /\ calls' = calls + 1
    /\ UNCHANGED <<flow, itemVars, errored, authVars, ws, wsConnected, inbox, hsReplied, sub_id_counter,
                   allocated, pagerVars, connected, lock, tpc, local, msg, transactions,
                   cursor, delivered>>

----------------------------------------------------------------------------
(* TimelineManager.classify *)

\* the four tuples of event types classify tests, in the order it tests them
CardEventTypes ==
    {"card_successful_transaction", "card_failed_transaction", "card_refund",
     "card_successful_verification"}

InboundEventTypes ==
    {"PAYMENT_INBOUND", "PAYMENT_INBOUND_SEPA_DIRECT_DEBIT", "INCOMING_TRANSFER",
     "INCOMING_TRANSFER_DELEGATION", "CREDIT"}

OutboundEventTypes == {"PAYMENT_OUTBOUND", "OUTGOING_TRANSFER_DELEGATION"}

InvestmentEventTypes ==
    {"ORDER_EXECUTED", "SAVINGS_PLAN_EXECUTED", "SAVINGS_PLAN_INVOICE_CREATED",
     "INTEREST_PAYOUT", "INTEREST_PAYOUT_CREATED", "DIVIDEND_PAYOUT",
     "trading_savingsplan_executed", "ssp_corporate_action_invoice_cash",
     "TRADE_INVOICE", "benefits_saveback_execution", "benefits_spare_change_execution",
     "timeline_legacy_migrated_events"}

INVESTMENT_SUBTITLES ==
    {"buy order", "sell order", "saving executed", "saveback", "round up", "pea",
     "dividend", "interest", "deposit", "withdrawal", "transfer", "tax", "fee"}

\* `txn.get(field) or ""`: a missing field, null and "" all give ""
OrEmpty(v) == IF v = None THEN "" ELSE v

\* str.strip().lower() on the texts of the model
StripLower(t) ==
    CASE t = "  " -> ""
      [] t = "Subscription" -> "subscription"
      [] t = "Netflix" -> "netflix"
      [] t = "Transfer" -> "transfer"
      [] t = "Deposit" -> "deposit"
      [] t = "Withdrawal" -> "withdrawal"
      [] t = "Buy Order" -> "buy order"
      [] OTHER -> t

\* `word in text` on the normalised texts of the model: none of them holds
\* two of the words classify looks for
Contains(text, word) ==
    text = word /\ word \in INVESTMENT_SUBTITLES \cup {"transfer", "deposit", "withdrawal"}

\* `"merchant-" in icon`
MerchantIcon(icon) == icon = "merchant-netflix"

\* mutant: `.get("value")` without the default 0
AmountVal_nodefault(amount) ==
    IF amount.is = "number" THEN [is |-> "number", n |-> amount.n]
    ELSE [is |-> "null", n |-> 0]

\* mutant: the value counts only when the amount names no currency
AmountVal_byCurrency(amount) ==
    IF amount.is = "number" /\ amount.cur = None THEN [is |-> "number", n |-> amount.n]
    ELSE [is |-> "number", n |-> 0]

\* `(txn.get("amount") or {}).get("value", 0)`: 0 without an amount or
\* without a value; the null of `"value": null` is passed on as None
AmountVal(amount) ==
    IF amount.is \in {"absent", "nullobj", "empty"} THEN [is |-> "number", n |-> 0]
    ELSE [is |-> amount.is, n |-> amount.n]

\* `amount_val > 0` and `amount_val < 0`: comparing None with an int raises
Compare(val, positive) ==
    IF val.is = "null" THEN "TypeError"
    ELSE IF positive THEN (IF val.n > 0 THEN "yes" ELSE "no")
    ELSE (IF val.n < 0 THEN "yes" ELSE "no")

\* classify, branch by branch; "TypeError" when a comparison raises
classify(t) ==
    LET event_type == OrEmpty(t.eventType)
        icon == OrEmpty(t.icon)
        subtitle == StripLower(OrEmpty(t.subtitle))
        title == StripLower(OrEmpty(t.title))
        cash_account == t.cashAccountNumber
        amount_val == AmountVal(t.amount)
    IN IF event_type \in CardEventTypes THEN "card"
       ELSE IF event_type \in InboundEventTypes THEN "transfer_in"
       ELSE IF event_type \in OutboundEventTypes THEN "transfer_out"
       ELSE IF event_type \in InvestmentEventTypes THEN "investment"
       ELSE IF MerchantIcon(icon) THEN "card"
       ELSE IF Contains(title, "transfer") \/ Contains(subtitle, "transfer")
       THEN CASE Compare(amount_val, TRUE) = "TypeError" -> "TypeError"
              [] Compare(amount_val, TRUE) = "yes" -> "transfer_in"
              [] OTHER -> "transfer_out"
       ELSE IF Contains(title, "deposit") \/ Contains(subtitle, "deposit") THEN "transfer_in"
       ELSE IF Contains(title, "withdrawal") \/ Contains(subtitle, "withdrawal")
       THEN "transfer_out"
       ELSE IF subtitle # "" /\ \E w \in INVESTMENT_SUBTITLES : Contains(subtitle, w)
       THEN "investment"
       ELSE IF cash_account \notin {None, ""} THEN "investment"
       ELSE IF subtitle = "" /\ cash_account = None
       THEN CASE Compare(amount_val, FALSE) = "TypeError" -> "TypeError"
              [] Compare(amount_val, FALSE) = "yes" -> "card"
              [] OTHER -> "other"
       ELSE "other"

\* the filters of TimelineManager call classify on one item of the timeline
Classify ==
    /\ flow = "classify" /\ category = "pending"
    /\ category' = classify(txn)
    /\ UNCHANGED <<flow, txn, fetched, normalized, refed, authVars, connVars, pagerVars, muxVars>>

\* categories.categorize_merchant on the merchants of the model: "Other" for
\* an empty name and for a name no rule matches
categorize_merchant(merchant_name) ==
    IF merchant_name = "Netflix" THEN "Subscription" ELSE "Other"

\* mutant: the sign of the value is dropped
AmountData_abs(amount) ==
    [error |-> IF amount.is = "nullobj" THEN "AttributeError" ELSE "none",
     val |-> IF amount.is \in {"number", "null"}
             THEN [is |-> amount.is, n |-> IF amount.n < 0 THEN 0 - amount.n ELSE amount.n]
             ELSE [is |-> "number", n |-> 0],
     currency |-> IF amount.cur = None THEN "EUR" ELSE amount.cur]

\* _normalize's `t.get("amount", {})` and the two .get calls on it. The
\* default stands in for a missing amount only: on `"amount": null` the
\* first .get returns None and the second raises AttributeError.
AmountData(amount) ==
    CASE amount.is = "nullobj" -> [error |-> "AttributeError", val |-> [is |-> "number", n |-> 0],
                                   currency |-> "EUR"]
      [] amount.is \in {"absent", "empty"} ->
             [error |-> "none", val |-> [is |-> "number", n |-> 0],
              currency |-> IF amount.cur = None THEN "EUR" ELSE amount.cur]
      [] OTHER ->
             [error |-> "none", val |-> [is |-> amount.is, n |-> amount.n],
              currency |-> IF amount.cur = None THEN "EUR" ELSE amount.cur]

\* _normalize: the copy of the raw item with the fields it adds. `raw` is
\* the copy: every field of the item, status among them, as it came.
\* (The title of the model is a text or missing, so `t.get("title",
\* "Unknown")` is "Unknown" exactly for None.)
Normalize(t, cat) ==
    LET amount_data == AmountData(t.amount)
        merchant == IF t.title = None THEN "Unknown" ELSE t.title
    IN [error |-> amount_data.error,
        raw |-> t,
        normalized_amount |-> amount_data.val,
        merchant |-> merchant,
        currency |-> amount_data.currency,
        category |-> cat,
        subtitle_raw |-> OrEmpty(t.subtitle),
        event_type |-> OrEmpty(t.eventType),
        spending_category |-> IF cat = "card" THEN categorize_merchant(merchant) ELSE "",
        timestamp_iso |-> t.timestamp]

\* mutant: only the items with a status other than CANCELED get a row
Rows_executedOnly(items) ==
    LET kept == SelectSeq(items, LAMBDA t : t.status # "CANCELED")
    IN [i \in 1..Len(kept) |-> Normalize(kept[i], classify(kept[i]))]

\* filter_all_classified's rows, one `_normalize(t, classify(t))` per item
Rows(items) == [i \in 1..Len(items) |-> Normalize(items[i], classify(items[i]))]

\* the list comprehension raises when classify or _normalize raises on an item
RowRaises(row) == row.category = "TypeError" \/ row.error # "none"

\* cli main after the fetch: `transactions = timeline.filter_all_classified()`
FilterAllClassified ==
    /\ flow = "export" /\ normalized.state = "pending"
    /\ LET rows == Rows(fetched)
       IN normalized' = IF \E i \in 1..Len(rows) : RowRaises(rows[i])
                        THEN [state |-> "raised", rows |-> <<>>]
                        ELSE [state |-> "done", rows |-> rows]
    /\ UNCHANGED <<flow, txn, category, fetched, refed, authVars, connVars, pagerVars, muxVars>>

\* mutant: the amount is moved out of the item into normalized_amount
AsRaw_amountMoved(row) ==
    [row.raw EXCEPT !.amount = [is |-> "absent", n |-> 0, cur |-> None]]

\* a normalized row read as a raw item: _normalize works on a copy and
\* writes only keys of its own (normalized_amount, merchant, currency,
\* category, subtitle_raw, event_type, spending_category, timestamp_iso), so
\* the keys classify and _normalize read hold what the raw item held
AsRaw(row) == row.raw

\* the rows are fed back: filter_all_classified on a manager whose
\* transactions are the rows it returned
ReFeed ==
    /\ flow = "export" /\ normalized.state = "done" /\ refed.state = "none"
    /\ LET items == [i \in 1..Len(normalized.rows) |-> AsRaw(normalized.rows[i])]
           rows == Rows(items)
       IN refed' = IF \E i \in 1..Len(rows) : RowRaises(rows[i])
                   THEN [state |-> "raised", rows |-> <<>>]
                   ELSE [state |-> "done", rows |-> rows]
    /\ UNCHANGED <<flow, txn, category, fetched, normalized, authVars, connVars, pagerVars, muxVars>>

----------------------------------------------------------------------------
(* The service *)

\* the `after` the pager put in its request for page `id`
RequestedAfter(id) == wire[IndexOut("sub", id)].after

\* The pages the service may answer a request with: the next `n` items of
\* its timeline after the requested offset, and a cursor that moves on
\* (present only behind a non-empty page), is left out, or is a null cursors.
Pages(after) ==
    {Payload("page", Interval(after + 1, after + n), cur,
             IF cur = "after" THEN after + n ELSE NoCursor) :
        <<n, cur>> \in {x \in (0..Min(MaxPageLen, MaxItems - after))
                              \X {"after", "absent", "null"} :
                          x[2] = "after" => x[1] >= 1}}

\* the pages among them that hold as many items as a page can. The two
\* callback clients are answered with these: nothing they do depends on how
\* many items a page holds.
FullPages(after) ==
    {pl \in Pages(after) : Len(pl.items) = Min(MaxPageLen, MaxItems - after)}

\* an object page that answers no request of the timeline
JunkPage == Payload("page", <<0>>, "absent", NoCursor)

\* the same with a cursor: it points behind the last item of the timeline
JunkCursorPage == Payload("page", <<0>>, "after", MaxItems)

BadPayloads == {NoPayload, Payload("badjson", <<>>, "absent", NoCursor),
                Payload("falsy", <<>>, "absent", NoCursor),
                Payload("nonobj", <<>>, "absent", NoCursor)}

\* Every other frame the service may send. To the newest request: C, D, E,
\* an A frame without a usable page, a frame of an unknown kind. To the
\* unknown id 0 and to the older ids: a late D or E, and an A frame to id 0.
\* Not addressed to any subscription: echo, a one-token frame, a frame whose
\* first token is no integer.
OtherFrames ==
    {Ctl("echo"), Ctl("short"), Ctl("oob")}
    \cup {Frame("reply", k, kind, NoPayload) : k \in 0..sub_id_counter, kind \in {"D", "E"}}
    \cup {Frame("reply", sub_id_counter, "C", NoPayload)}
    \cup {Frame("reply", sub_id_counter, "A", pl) : pl \in BadPayloads}
    \cup {Frame("reply", sub_id_counter, "X", pl) :
             pl \in {NoPayload, JunkPage} \cup (IF flow = "pager" THEN {JunkCursorPage} ELSE {})}
    \cup {Frame("reply", 0, "A", JunkPage)}

\* Some call is blocked in recv(). A frame that arrives earlier sits in the
\* socket's buffer until a call reads, so it is modelled as arriving then,
\* one frame at a time: the frames are read in the order they were sent.
Reading ==
    \/ \E p \in pagers : pc[p] \in {"handshake", "recv"}
    \/ tpc["main"] = "handshake"
    \/ tpc["reader"] = "idle"

CanSend == ws = "open" /\ inbox = <<>> /\ Reading

\* the service sends no frame that would run a callback once MaxDelivered
\* callbacks have run
WithinBudget(f) == delivered < MaxDelivered \/ f.form # "reply" \/ f.id \notin subscriptions

\* the reply to `connect`: `connected`, or something else
SrvHandshake ==
    /\ CanSend /\ ~hsReplied
    /\ \E i \in 1..Len(wire) : wire[i].op = "connect"
    /\ \E form \in {"connected", "rejected"} : inbox' = Append(inbox, Ctl(form))
    /\ hsReplied' = TRUE
    /\ UNCHANGED <<flow, itemVars, muxVars, authVars, ws, wsConnected, wire, sub_id_counter, allocated,
                   pagerVars>>

\* an A frame with a page for a request seen on the wire; with two calls on
\* the socket, for a request one of them is waiting on
SrvAnswer ==
    /\ flow # "endless"
    /\ CanSend /\ hsReplied
    /\ \E k \in 1..sub_id_counter :
         /\ CountOut("sub", k) > 0
         /\ flow = "gather" => \E p \in pagers : pc[p] = "recv" /\ sub_id[p] = k
         /\ \E pl \in (IF flow \in {"cli", "pager"} THEN Pages(RequestedAfter(k))
                                                     ELSE FullPages(RequestedAfter(k))) :
               /\ WithinBudget(Frame("reply", k, "A", pl))
               /\ inbox' = Append(inbox, Frame("reply", k, "A", pl))
    /\ UNCHANGED <<flow, itemVars, muxVars, authVars, ws, wsConnected, wire, hsReplied, sub_id_counter,
                   allocated, pagerVars>>

\* any other frame
SrvOther ==
    /\ flow \notin {"cli", "gather", "endless"}
    /\ CanSend /\ hsReplied
    /\ \E f \in OtherFrames : WithinBudget(f) /\ inbox' = Append(inbox, f)
    /\ UNCHANGED <<flow, itemVars, muxVars, authVars, ws, wsConnected, wire, hsReplied, sub_id_counter,
                   allocated, pagerVars>>

\* a service whose timeline never ends: every request a call waits on is
\* answered with a page of one item and a cursor behind it
SrvEndless ==
    /\ flow = "endless"
    /\ CanSend /\ hsReplied
    /\ \E p \in pagers :
         /\ pc[p] = "recv"
         /\ LET after == RequestedAfter(sub_id[p])
            IN inbox' = Append(inbox, Frame("reply", sub_id[p], "A",
                                  Payload("page", <<after + 1>>, "after", after + 1)))
    /\ UNCHANGED <<flow, itemVars, muxVars, authVars, ws, wsConnected, wire, hsReplied,
                   sub_id_counter, allocated, pagerVars>>

----------------------------------------------------------------------------
(* Specification *)

InitialFiles ==
    {TokenFile("missing", None, None), TokenFile("corrupt", None, None)}
    \cup {TokenFile("ok", s, r) : s \in {None, "t1"}, r \in {None, "t1"}}

InitConn ==
    /\ ws = "none" /\ wsConnected = FALSE /\ wire = <<>> /\ inbox = <<>>
    /\ hsReplied = FALSE /\ sub_id_counter = 0 /\ allocated = <<>>

InitPager ==
    /\ pagers = {1}
    /\ pc = [p \in pagers |-> "idle"]
    /\ all_transactions = [p \in pagers |-> <<>>]
    /\ cursor_after = [p \in pagers |-> NoCursor]
    /\ loops = [p \in pagers |-> 0]
    /\ sub_id = [p \in pagers |-> 0]
    /\ valid_data = [p \in pagers |-> NoData]
    /\ result = [p \in pagers |-> <<>>]
    /\ received = [p \in pagers |-> <<>>]
    /\ waitEnd = <<>>
    /\ taken = <<>>
    /\ lastRead = "none"
    /\ idle = [p \in pagers |-> 0]
    /\ waited = [p \in pagers |-> 0]

InitMux(main) ==
    /\ connected = FALSE /\ subscriptions = {} /\ lock = "free"
    /\ tpc = [t \in Threads |-> IF t = "main" THEN main ELSE "off"]
    /\ local = [t \in Threads |-> Local(0, NoCursor, 0)]
    /\ msg = NoPayload /\ transactions = <<>> /\ cursor = NoCursor
    /\ calls = 0 /\ delivered = 0 /\ errored = 0

\* TradeRepublicClient.__init__, and main about to call load_tokens
InitCli ==
    /\ flow = "cli" /\ mainPc = "load"
    /\ limit \in 0..MaxLimit
    /\ tokenFile \in InitialFiles
    /\ session_token = None /\ refresh_token = None /\ process_id = None
    /\ loadedPair = [session |-> None, refresh |-> None]
    /\ refreshAttempted = FALSE /\ lastAuth = "none"
    /\ InitConn /\ InitPager /\ InitMux("off")

\* main about to call fetch_transactions: tokens loaded and refreshed
InitFetch ==
    /\ flow = "pager" /\ mainPc = "fetch"
    /\ limit \in 0..MaxLimit
    /\ tokenFile = TokenFile("ok", "t1", "t1")
    /\ session_token = "t1" /\ refresh_token = "t1" /\ process_id = None
    /\ loadedPair = [session |-> "t1", refresh |-> "t1"]
    /\ refreshAttempted = TRUE /\ lastAuth = "refresh_ok"
    /\ InitConn /\ InitPager /\ InitMux("off")

\* a WebSocketClient of either class just constructed with a session token
InitClient(f) ==
    /\ flow = f /\ mainPc = "off"
    /\ limit = 0
    /\ tokenFile = TokenFile("ok", "t1", "t1")
    /\ session_token = "t1" /\ refresh_token = "t1" /\ process_id = None
    /\ loadedPair = [session |-> "t1", refresh |-> "t1"]
    /\ refreshAttempted = FALSE /\ lastAuth = "none"
    /\ InitConn /\ InitPager /\ InitMux("new")

\* a client of either kind, holding any pair, about to call load_tokens
InitLoad ==
    /\ flow = "load" /\ mainPc \in {"client", "auth"}
    /\ limit = 0
    /\ tokenFile \in InitialFiles
    /\ session_token \in {None, "t2"} /\ refresh_token \in {None, "t2"}
    /\ process_id = None
    /\ loadedPair = [session |-> None, refresh |-> None]
    /\ refreshAttempted = FALSE /\ lastAuth = "none"
    /\ InitConn /\ InitPager /\ InitMux("off")

\* fetch_timeline_transactions called with a limit no page reaches, against
\* the service whose timeline never ends
InitEndless ==
    /\ flow = "endless" /\ mainPc = "off"
    /\ limit = max_loops + 1
    /\ tokenFile = TokenFile("ok", "t1", "t1")
    /\ session_token = "t1" /\ refresh_token = "t1" /\ process_id = None
    /\ loadedPair = [session |-> "t1", refresh |-> "t1"]
    /\ refreshAttempted = TRUE /\ lastAuth = "refresh_ok"
    /\ InitConn /\ InitMux("off")
    /\ pagers = {1}
    /\ pc = [p \in pagers |-> "start"]
    /\ all_transactions = [p \in pagers |-> <<>>]
    /\ cursor_after = [p \in pagers |-> NoCursor]
    /\ loops = [p \in pagers |-> 0]
    /\ sub_id = [p \in pagers |-> 0]
    /\ valid_data = [p \in pagers |-> NoData]
    /\ result = [p \in pagers |-> <<>>]
    /\ received = [p \in pagers |-> <<>>]
    /\ waitEnd = <<>> /\ taken = <<>> /\ lastRead = "none"
    /\ idle = [p \in pagers |-> 0]
    /\ waited = [p \in pagers |-> 0]

\* two fetch_timeline_transactions calls about to run as tasks of one loop
\* on one client whose ws_connect has completed
InitGather ==
    /\ flow = "gather" /\ mainPc = "off"
    /\ limit = MaxLimit
    /\ tokenFile = TokenFile("ok", "t1", "t1")
    /\ session_token = "t1" /\ refresh_token = "t1" /\ process_id = None
    /\ loadedPair = [session |-> "t1", refresh |-> "t1"]
    /\ refreshAttempted = FALSE /\ lastAuth = "none"
    /\ ws = "open" /\ wsConnected = TRUE /\ wire = <<Out("connect", 0, NoCursor)>>
    /\ inbox = <<>> /\ hsReplied = TRUE /\ sub_id_counter = 0 /\ allocated = <<>>
    /\ pagers = {1, 2}
    /\ pc = [p \in pagers |-> "start"]
    /\ all_transactions = [p \in pagers |-> <<>>]
    /\ cursor_after = [p \in pagers |-> NoCursor]
    /\ loops = [p \in pagers |-> 0]
    /\ sub_id = [p \in pagers |-> 0]
    /\ valid_data = [p \in pagers |-> NoData]
    /\ result = [p \in pagers |-> <<>>]
    /\ received = [p \in pagers |-> <<>>]
    /\ waitEnd = <<>> /\ taken = <<>> /\ lastRead = "none"
    /\ idle = [p \in pagers |-> 0]
    /\ waited = [p \in pagers |-> 0]
    /\ InitMux("off")

\* a WebSocketClient of either class after connect and one subscribe, with
\* no frame arriving
InitUnsub(f) ==
    /\ flow = f /\ mainPc = "off"
    /\ limit = 0
    /\ tokenFile = TokenFile("ok", "t1", "t1")
    /\ session_token = "t1" /\ refresh_token = "t1" /\ process_id = None
    /\ loadedPair = [session |-> "t1", refresh |-> "t1"]
    /\ refreshAttempted = FALSE /\ lastAuth = "none"
    /\ connected = TRUE /\ ws = "open"
    /\ wsConnected = TRUE /\ hsReplied = TRUE /\ inbox = <<>>
    /\ wire = <<Out("connect", 0, NoCursor), SubFrame(1, NoCursor)>>
    /\ sub_id_counter = 1 /\ allocated = <<1>>
    /\ InitPager
    /\ subscriptions = {1} /\ lock = "free"
    /\ tpc = [t \in Threads |-> IF t = "main" THEN "api" ELSE "off"]
    /\ local = [t \in Threads |-> Local(0, NoCursor, 0)]
    /\ msg = NoPayload /\ transactions = <<>> /\ cursor = NoCursor
    /\ calls = 0 /\ delivered = 0 /\ errored = 0

\* the raw items of the model. None is a field that is missing or null.
Amounts ==
    {[is |-> "absent", n |-> 0, cur |-> None], [is |-> "empty", n |-> 0, cur |-> None],
     [is |-> "null", n |-> 0, cur |-> None]}
    \cup {[is |-> "number", n |-> n, cur |-> None] : n \in {-1, 0, 1}}

RawItems ==
    [eventType : {None, "UNKNOWN_EVENT"} \cup CardEventTypes \cup InboundEventTypes
                    \cup OutboundEventTypes \cup InvestmentEventTypes,
     icon : {None, "merchant-netflix", "logos/bank"},
     title : {None, "Netflix", "Transfer", "Deposit", "Withdrawal"},
     subtitle : {None, "", "  ", "Subscription", "Transfer", "Deposit", "Withdrawal",
                 "Buy Order"},
     cashAccountNumber : {None, "", "DE01"},
     amount : Amounts,
     id : {None}, timestamp : {None}, status : {None}]

NoItem ==
    [eventType |-> None, icon |-> None, title |-> None, subtitle |-> None,
     cashAccountNumber |-> None, amount |-> [is |-> "absent", n |-> 0, cur |-> None],
     id |-> None, timestamp |-> None, status |-> None]

NotRun == [state |-> "none", rows |-> <<>>]

\* an item of the fetched timeline about to be classified
InitClassify ==
    /\ flow = "classify" /\ mainPc = "off"
    /\ limit = 0
    /\ tokenFile = TokenFile("ok", "t1", "t1")
    /\ session_token = "t1" /\ refresh_token = "t1" /\ process_id = None
    /\ loadedPair = [session |-> "t1", refresh |-> "t1"]
    /\ refreshAttempted = FALSE /\ lastAuth = "none"
    /\ InitConn /\ InitPager /\ InitMux("off")
    /\ txn \in RawItems /\ category = "pending"
    /\ fetched = <<>> /\ normalized = NotRun /\ refed = NotRun

\* the amounts of the fetched items: missing, null, an object without
\* fields, an object with a null value, and numbers with and without currency
FetchedAmounts ==
    {[is |-> "absent", n |-> 0, cur |-> None], [is |-> "nullobj", n |-> 0, cur |-> None],
     [is |-> "empty", n |-> 0, cur |-> None], [is |-> "null", n |-> 0, cur |-> "USD"],
     [is |-> "number", n |-> -1, cur |-> None], [is |-> "number", n |-> 1, cur |-> "USD"]}

\* the items of a fetched timeline: they differ in title, amount and status
FetchedItems ==
    {[NoItem EXCEPT !.title = title, !.amount = amount, !.status = status,
                    !.timestamp = "2024-01-01"] :
        title \in {None, "Netflix"}, amount \in FetchedAmounts,
        status \in {None, "", "CANCELED"}}
    \cup {NoItem}

Lists(S, n) == UNION {[1..k -> S] : k \in 0..n}

\* fetch_transactions has returned; main about to call filter_all_classified
InitExport ==
    /\ flow = "export" /\ mainPc = "off"
    /\ limit = 0
    /\ tokenFile = TokenFile("ok", "t1", "t1")
    /\ session_token = "t1" /\ refresh_token = "t1" /\ process_id = None
    /\ loadedPair = [session |-> "t1", refresh |-> "t1"]
    /\ refreshAttempted = FALSE /\ lastAuth = "none"
    /\ InitConn /\ InitPager /\ InitMux("off")
    /\ txn = NoItem /\ category = "none"
    /\ fetched \in Lists(FetchedItems, MaxFetched)
    /\ normalized = [state |-> "pending", rows |-> <<>>] /\ refed = NotRun

Init ==
    \/ /\ \/ InitCli \/ InitFetch \/ InitClient("threaded") \/ InitClient("callback")
          \/ InitGather \/ InitUnsub("unsub_th") \/ InitUnsub("unsub_cb")
          \/ InitEndless \/ InitLoad
       /\ txn = NoItem /\ category = "none"
       /\ fetched = <<>> /\ normalized = NotRun /\ refed = NotRun
    \/ InitClassify
    \/ InitExport

Next ==
    \/ MainLoadTokens \/ MainLogin \/ MainVerifyOtp \/ MainRefresh
    \/ MainFetch \/ MainAfterFetch \/ MainClose \/ MainRestart
    \/ (\E p \in pagers : PagerStart(p))
    \/ (\E p \in pagers : WsConnectOpen(p))
    \/ (\E p \in pagers : WsConnectSend(p))
    \/ (\E p \in pagers : WsHandshakeRecv(p))
    \/ (\E p \in pagers : WsHandshakeTimeout(p))
    \/ (\E p \in pagers : PagerSubscribe(p))
    \/ (\E p \in pagers : PagerRecv(p))
    \/ (\E p \in pagers : Tick(p))
    \/ (\E p \in pagers : PagerTimeout(p))
    \/ (\E p \in pagers : PagerUnsub(p))
    \/ (\E p \in pagers : PagerProcess(p))
    \/ (\E p \in pagers : PagerRecvError(p))
    \/ (\E p \in pagers : PagerRecvBusy(p))
    \/ (\E p \in pagers : PagerExcept(p))
    \/ ThConnect \/ ThOnOpen \/ ThConnectWait \/ ThGetTransactions \/ ThSleepDone
    \/ (\E t \in Threads : ThSubLock(t))
    \/ (\E t \in Threads : ThSubAlloc(t))
    \/ (\E t \in Threads : ThSubSend(t))
    \/ ThOnMessage \/ ThCallback \/ ThTransportError \/ ThUnsubDelete \/ ThUnsubSend
    \/ CbConnect \/ CbHandshake \/ CbSubscribe \/ CbListen \/ CbTransportError
    \/ CbMainEnd
    \/ (\E id \in UnsubArgs : ThUnsubscribe(id))
    \/ (\E id \in UnsubArgs : CbUnsubscribe(id))
    \/ Classify \/ FilterAllClassified
    \/ SrvHandshake \/ SrvAnswer \/ SrvOther \/ SrvEndless
    \/ ClientLoadTokens \/ AuthLoadTokens \/ ReFeed

Spec == Init /\ [][Next]_vars

----------------------------------------------------------------------------
(* Properties *)

HasOut(op, id) == CountOut(op, id) > 0
Returned(p) == pc[p] = "done"

\* C1: sub ids are handed out 1, 2, 3, ...: the first is 1, each is greater
\* than every earlier one, and none is handed out twice.
C1_SubIdsSequential == \A i \in 1..Len(allocated) : allocated[i] = i

\* three ids handed out, the later ones after an unsubscribe
C1_Witness == Len(allocated) >= 3 /\ HasOut("unsub", 1)

\* C2 (as claimed): with limit 0 and every page request answered by an A
\* frame, the call goes on until a page without cursor and returns the items
\* of all the pages it received, in order.
C2_UnlimitedReturnsEveryPage ==
    \A p \in pagers :
        (/\ limit = 0 /\ Returned(p)
         /\ \A k \in 1..Len(waitEnd) : waitEnd[k] = "A")
        => /\ result[p] = received[p]
           /\ cursor_after[p] = NoCursor

\* C3: with limit N > 0 the call returns the first min(N, T) of the T items
\* it received, in order, and has no page request outstanding while the
\* accumulator holds N items or more.
C3_LimitTruncates ==
    \A p \in pagers :
        limit > 0 =>
          /\ Returned(p) =>
               /\ Len(result[p]) = Min(limit, Len(received[p]))
               /\ \A i \in 1..Len(result[p]) : result[p][i] = received[p][i]
          /\ pc[p] \in {"recv", "unsub"} => Len(all_transactions[p]) < limit

C3_Witness ==
    \E p \in pagers :
        /\ limit > 0 /\ Returned(p)
        /\ Len(received[p]) > limit /\ Len(result[p]) = limit
        /\ Len(waitEnd) >= 2

\* C4 (as claimed): no sub frame is written on a connection on which no
\* `connected` frame has been read.
C4_NoSubBeforeConnected ==
    (\E i \in 1..Len(wire) : wire[i].op = "sub") => wsConnected

\* C5: while the session token is absent no socket exists and no frame has
\* been written.
C5_NoStreamWithoutSession ==
    session_token = None => (ws = "none" /\ wire = <<>>)

\* ws_connect was called without a session and raised before opening a socket
C5_Witness ==
    \E p \in pagers : pc[p] = "raised" /\ session_token = None /\ ws = "none"

\* C6 (as claimed): when load_tokens read a refresh token and no session
\* token, a refresh has been attempted before any stream operation.
C6_RefreshBeforeStream ==
    (/\ loadedPair.session = None /\ loadedPair.refresh # None
     /\ \E p \in pagers : pc[p] # "idle")
    => refreshAttempted

\* C7 (as claimed): the wait for a page is over by its deadline, whatever
\* other frames arrive meanwhile.
C7_WaitEndsByDeadline ==
    \A p \in pagers : pc[p] = "recv" => waited[p] <= RecvTimeout

\* C8: a step that reads a reply frame whose sub id was never handed out, or
\* whose unsub has been sent (after its data or after its timeout), hands
\* nothing to a waiter or callback, adds no item to an accumulator, leaves
\* the subscription table and the connection as they are, and raises nothing.
C8_StaleFrameDropped ==
    [][(/\ inbox # <<>> /\ inbox' = Tail(inbox)
        /\ Head(inbox).form = "reply"
        /\ (Head(inbox).id \notin Range(allocated) \/ HasOut("unsub", Head(inbox).id)))
       => UNCHANGED <<all_transactions, cursor_after, valid_data, result, received,
                      loops, sub_id, pc, waitEnd, taken, wire, sub_id_counter,
                      allocated, ws, wsConnected, authVars, muxVars>>]_vars

\* a pager call has read such a frame while it waited for a page
C8_Witness ==
    /\ lastRead \in {"unknown", "closed"}
    /\ \E p \in pagers : pc[p] = "recv"

\* C9: at most one A frame is taken per subscription, and a step that reads a
\* further A frame for a subscription whose wait an A frame already ended
\* adds no item, sends no frame and changes nothing of the call or the
\* connection.
C9_SecondAIsNoOp ==
    /\ [](\A i, j \in 1..Len(taken) : taken[i] = taken[j] => i = j)
    /\ [][(/\ inbox # <<>> /\ inbox' = Tail(inbox)
           /\ Head(inbox).form = "reply" /\ Head(inbox).kind = "A"
           /\ Head(inbox).id \in 1..Len(waitEnd)
           /\ waitEnd[Head(inbox).id] = "A")
          => UNCHANGED <<all_transactions, cursor_after, valid_data, result, received,
                         loops, sub_id, pc, wire, sub_id_counter, allocated, ws,
                         wsConnected, waitEnd, taken, authVars, muxVars>>]_vars

C9_Witness == lastRead = "dupA"

\* C10 (as claimed): a page subscription whose wait ended with an A frame or
\* a timeout has exactly one unsub, sent before the next sub or the return;
\* and a call that has returned leaves no sub without its unsub.
C10_ExactlyOneUnsub ==
    /\ \A k \in 1..Len(waitEnd) :
          (/\ waitEnd[k] \in {"A", "timeout"}
           /\ (HasOut("sub", k + 1) \/ \E p \in pagers : Returned(p) /\ sub_id[p] = k))
          => /\ CountOut("unsub", k) = 1
             /\ IndexOut("sub", k) < IndexOut("unsub", k)
             /\ HasOut("sub", k + 1) => IndexOut("unsub", k) < IndexOut("sub", k + 1)
    /\ \A p \in pagers :
          Returned(p) => \A k \in 1..sub_id_counter : HasOut("sub", k) => HasOut("unsub", k)

\* C11 (as claimed): a page subscription whose wait an E frame ended is closed
\* without an unsub frame for its id.
C11_ErrorClosesWithoutUnsub ==
    \A k \in 1..Len(waitEnd) : waitEnd[k] = "E" => ~HasOut("unsub", k)

MuxFlows == {"threaded", "callback"}

\* C12: in the two callback clients a step that reads an E frame leaves the
\* connection open, the subscription table and every thread where they were,
\* and writes no frame; and after an E frame for a registered id i, an A frame
\* with a well-formed payload for another registered id j still runs j's
\* callback.
C12_ErrorLeavesOthers ==
    /\ [][(/\ flow \in MuxFlows
           /\ inbox # <<>> /\ inbox' = Tail(inbox)
           /\ Head(inbox).form = "reply" /\ Head(inbox).kind = "E")
          => UNCHANGED <<subscriptions, connected, ws, tpc, lock, wire, transactions,
                         cursor, sub_id_counter, allocated>>]_vars
    /\ [][(/\ flow \in MuxFlows
           /\ inbox # <<>> /\ inbox' = Tail(inbox)
           /\ Head(inbox).form = "reply" /\ Head(inbox).kind = "A"
           /\ Head(inbox).pl.shape # "badjson"
           /\ errored # 0 /\ Head(inbox).id # errored
           /\ Head(inbox).id \in subscriptions)
          => delivered' = delivered + 1]_vars

\* an E frame was read for i, i is still registered, and the callback of
\* another id is running on an A frame read after it
C12_Witness ==
    /\ errored # 0 /\ errored \in subscriptions
    /\ tpc["reader"] = "callback"
    /\ local["reader"].msg_id \notin {0, errored}

\* C13 (as claimed): once the socket has been closed the subscription table
\* is empty and no call is still waiting for a frame.
C13_NoLeakAfterClose ==
    ws = "closed" =>
        /\ subscriptions = {}
        /\ \A p \in pagers : pc[p] \notin {"handshake", "recv"}

\* C14 (as claimed): once the transport is lost the client is disconnected,
\* no subscription is left waiting in the table, and no call is still
\* waiting for a frame.
C14_TransportErrorTearsDown ==
    ws = "broken" =>
        /\ flow \in MuxFlows => ~connected
        /\ subscriptions = {}
        /\ \A p \in pagers : pc[p] \notin {"handshake", "recv"}

\* C15: a page frame that answers the request a call is waiting on goes to
\* that call: the step that takes it off the socket adds its items to what
\* the call has received, whichever call runs at the time.
C15_RepliesReachTheirCall ==
    [][\A p \in pagers :
          (/\ pc[p] = "recv" /\ inbox # <<>> /\ inbox' = Tail(inbox)
           /\ IsPageFor(Head(inbox), sub_id[p]) /\ Head(inbox).kind = "A")
          => received'[p] = received[p] \o Head(inbox).pl.items]_vars

\* C16: unsubscribe is idempotent. However often its owner calls it, an id
\* that was handed out has at most one unsub frame on the wire, as after one
\* call, and an id that was never registered has none.
C16_UnsubscribeIdempotent ==
    flow \in {"unsub_th", "unsub_cb"} =>
        \A id \in UnsubArgs :
            CountOut("unsub", id) <= (IF id \in Range(allocated) THEN 1 ELSE 0)

\* C17: a save is all or nothing. When the process is killed inside a save
\* and the file held a pair before, the file it leaves holds that pair or the
\* new pair whole, so the next run loads one of the two.
C17_SaveIsAtomic ==
    (mainPc = "killed" /\ loadedPair.session # None) =>
        tokenFile \in {TokenFile("ok", loadedPair.session, loadedPair.refresh),
                       TokenFile("ok", session_token, refresh_token)}

\* the pair load_tokens would take from the file: none from a file that is
\* missing or unreadable
FilePair(file) ==
    IF file.state = "ok" THEN [session |-> file.session, refresh |-> file.refresh]
                         ELSE [session |-> None, refresh |-> None]

\* C18: once login, verify_otp or refresh_session has returned without an
\* error, the token file holds the pair the client holds in memory.
C18_FileMatchesMemory ==
    (flow = "cli" /\ mainPc \in {"otp", "fetch"}) =>
        FilePair(tokenFile) = [session |-> session_token, refresh |-> refresh_token]

\* C19: the process id is gone once verify_otp has used it: when main goes
\* on to fetch, no process id is left for a second verify_otp to send.
C19_ProcessIdDiscarded == mainPc = "fetch" => process_id = None

\* the decision procedure as the rules are worded: a field is absent when
\* the item does not carry it (or carries null), a comparison with a value
\* that is no number does not hold
Absent(v) == v = None

RuleCategory(t) ==
    LET event_type == OrEmpty(t.eventType)
        subtitle == StripLower(OrEmpty(t.subtitle))
        title == StripLower(OrEmpty(t.title))
        value == AmountVal(t.amount)
        positive == value.is = "number" /\ value.n > 0
        negative == value.is = "number" /\ value.n < 0
    IN CASE event_type \in CardEventTypes -> "card"
         [] event_type \in InboundEventTypes -> "transfer_in"
         [] event_type \in OutboundEventTypes -> "transfer_out"
         [] event_type \in InvestmentEventTypes -> "investment"
         [] OTHER ->
            IF MerchantIcon(OrEmpty(t.icon)) THEN "card"
            ELSE IF Contains(title, "transfer") \/ Contains(subtitle, "transfer")
            THEN (IF positive THEN "transfer_in" ELSE "transfer_out")
            ELSE IF Contains(title, "deposit") \/ Contains(subtitle, "deposit")
            THEN "transfer_in"
            ELSE IF Contains(title, "withdrawal") \/ Contains(subtitle, "withdrawal")
            THEN "transfer_out"
            ELSE IF \E w \in INVESTMENT_SUBTITLES : Contains(subtitle, w) THEN "investment"
            ELSE IF ~Absent(t.cashAccountNumber) /\ t.cashAccountNumber # ""
            THEN "investment"
            ELSE IF Absent(t.subtitle) /\ Absent(t.cashAccountNumber) /\ negative
            THEN "card"
            ELSE "other"

\* C20: for every raw item classify returns the category the eleven rules
\* give, first match first.
C20_ClassifyFollowsRules ==
    (flow = "classify" /\ category # "pending") => category = RuleCategory(txn)

Categories == {"card", "investment", "transfer_in", "transfer_out", "other"}

\* every field of the item is there with a value or is missing: none is null
\* (a text field that is None stands for a missing one)
NoNullField(t) == t.amount.is \notin {"nullobj", "null"}

Done == flow = "export" /\ normalized.state = "done"

SameClassFields(a, b) ==
    /\ a.eventType = b.eventType /\ a.icon = b.icon /\ a.title = b.title
    /\ a.subtitle = b.subtitle /\ a.cashAccountNumber = b.cashAccountNumber
    /\ a.amount.is = b.amount.is /\ a.amount.n = b.amount.n

\* C22: the category depends on eventType, icon, title, subtitle,
\* cashAccountNumber and amount.value only: changing id, timestamp, status or
\* currency of an item leaves its category, and two items of one list that
\* agree on the six fields get the same category.
C22_CategoryDependsOnSixFields ==
    /\ (flow = "classify" /\ category # "pending") =>
           \A id \in {None, "1"}, ts \in {None, "2024-01-01"},
              st \in {None, "", "CANCELED"}, cur \in {None, "USD"} :
                classify([txn EXCEPT !.id = id, !.timestamp = ts, !.status = st,
                                     !.amount.cur = cur]) = category
    /\ Done =>
           \A i, j \in 1..Len(fetched) :
               SameClassFields(fetched[i], fetched[j]) =>
                   normalized.rows[i].category = normalized.rows[j].category

C22_Witness ==
    /\ Done /\ Len(fetched) = 2
    /\ SameClassFields(fetched[1], fetched[2])
    /\ fetched[1].status = "CANCELED" /\ fetched[2].status = ""
    /\ normalized.rows[2].category = "card"

\* C23: the normalized amount is the raw amount.value as it came, sign and
\* magnitude; an item without an amount gets 0 and EUR.
C23_AmountPassedThrough ==
    Done =>
        \A i \in 1..Len(fetched) :
            LET a == fetched[i].amount
                r == normalized.rows[i]
            IN /\ a.is = "number" => r.normalized_amount = [is |-> "number", n |-> a.n]
               /\ a.is = "absent" =>
                      (r.normalized_amount = [is |-> "number", n |-> 0] /\ r.currency = "EUR")

C23_Witness ==
    /\ Done /\ Len(fetched) = 2
    /\ fetched[1].amount.is = "number" /\ fetched[1].amount.n = -1
    /\ normalized.rows[1].normalized_amount.n = -1
    /\ fetched[2].amount.is = "absent" /\ normalized.rows[2].currency = "EUR"

\* C24: filter_all_classified returns one row per fetched item, in the order
\* of the items, each with the item's fields as they came, whatever its status.
C24_OneRowPerItem ==
    (flow = "export" /\ normalized.state # "pending"
      /\ \A i \in 1..Len(fetched) : NoNullField(fetched[i])) =>
        /\ normalized.state = "done"
        /\ Len(normalized.rows) = Len(fetched)
        /\ \A i \in 1..Len(fetched) :
               /\ normalized.rows[i].raw = fetched[i]
               /\ normalized.rows[i].raw.status = fetched[i].status

C24_Witness ==
    /\ Done /\ Len(normalized.rows) = 2
    /\ fetched[1].status = "CANCELED" /\ fetched[2].status = ""
    /\ fetched[1].title # fetched[2].title
    /\ normalized.rows[1].raw.status = "CANCELED"

\* a call sends the sub frame of its next page
SendsSub(p) == pc[p] = "loop" /\ pc'[p] = "recv"

\* C25: the first request of a call carries no `after`; every later request
\* carries the `after` cursor of the A payload that answered the request
\* before it.
C25_CursorChain ==
    [][\A p \in pagers :
          SendsSub(p) =>
              LET f == wire'[Len(wire')]
              IN /\ f.op = "sub"
                 /\ loops[p] = 0 => f.after = NoCursor
                 /\ loops[p] > 0 =>
                        (/\ waitEnd[sub_id[p]] = "A"
                         /\ valid_data[p].cur = "after"
                         /\ f.after = valid_data[p].after)]_vars

\* C26: a call asks for at most 500 pages, and for exactly 500 when every
\* page came with a cursor and the limit was never reached.
C26_StopsAtMaxPages ==
    /\ \A p \in pagers : loops[p] <= 500
    /\ (/\ flow = "endless" /\ pc[1] = "done"
        /\ \A k \in 1..Len(waitEnd) : waitEnd[k] = "A") => sub_id_counter = 500

\* the wait of the call's latest page ended with an E frame or by the
\* deadline, on a transport that is still up
EndedByErrorOrTimeout(p) ==
    /\ ws # "broken"
    /\ sub_id[p] \in 1..Len(waitEnd)
    /\ waitEnd[sub_id[p]] \in {"E", "timeout"}

\* C27: once a page's wait has ended with an E frame or a timeout, the call
\* only sends the unsub, looks at the empty page and returns: it sends no
\* further sub, raises nothing, and returns the items of the earlier pages,
\* cut to the limit when the limit is positive.
C27_ErrorOrTimeoutStopsPager ==
    \A p \in pagers :
        EndedByErrorOrTimeout(p) =>
            /\ pc[p] \in {"unsub", "process", "done"}
            /\ \A k \in 1..Len(wire) : wire[k].op = "sub" => wire[k].id <= sub_id[p]
                                                           \/ Cardinality(pagers) > 1
            /\ all_transactions[p] = received[p]
            /\ pc[p] = "done" =>
                   result[p] = IF limit > 0 THEN Truncate(received[p], limit)
                               ELSE received[p]

C27_Witness ==
    \E p \in pagers :
        /\ EndedByErrorOrTimeout(p) /\ pc[p] = "done"
        /\ loops[p] > 1 /\ limit > 0 /\ result[p] # <<>>

\* C28: a frame for the awaited subscription whose kind is none of A, C, D,
\* E never ends a wait, and its payload never reaches the accumulator.
C28_UnknownKindDropped ==
    [][\A p \in pagers :
          (/\ pc[p] = "recv" /\ inbox # <<>> /\ inbox' = Tail(inbox)
           /\ Head(inbox).form = "reply" /\ Head(inbox).id = sub_id[p]
           /\ Head(inbox).kind \notin {"A", "C", "D", "E"})
          => /\ pc'[p] = "recv"
             /\ valid_data'[p] = valid_data[p]
             /\ received'[p] = received[p]]_vars

\* frames that are not page data for the awaited id: an echo, a short or
\* out-of-band frame, a C or a D frame for the awaited id
Ignorable(f, id) ==
    \/ f.form # "reply"
    \/ f.id = id /\ f.kind \in {"C", "D"}

\* C29: while a single call awaits a page on a live transport, reading an
\* echo, an out-of-band frame or a C or D frame for the awaited id leaves it
\* waiting with accumulator and cursor as they were; the wait is left only on
\* an A or E frame for the awaited id or when the deadline passes.
C29_OnlyAEOrDeadlineEndsWait ==
    [][\A p \in pagers :
          (pc[p] = "recv" /\ Cardinality(pagers) = 1 /\ ws' = ws) =>
              /\ (inbox # <<>> /\ inbox' = Tail(inbox) /\ Ignorable(Head(inbox), sub_id[p]))
                  => /\ pc'[p] = "recv"
                     /\ all_transactions'[p] = all_transactions[p]
                     /\ cursor_after'[p] = cursor_after[p]
              /\ pc'[p] # "recv"
                  => \/ /\ inbox # <<>>
                        /\ Head(inbox).form = "reply" /\ Head(inbox).id = sub_id[p]
                        /\ Head(inbox).kind \in {"A", "E"}
                     \/ inbox = <<>> /\ idle[p] = RecvTimeout]_vars

\* the part of C29 about the frames that are passed over
C29_IgnoredFramesKeepWaiting ==
    [][\A p \in pagers :
          (/\ pc[p] = "recv" /\ inbox # <<>> /\ inbox' = Tail(inbox)
           /\ Ignorable(Head(inbox), sub_id[p]))
          => /\ pc'[p] = "recv"
             /\ all_transactions'[p] = all_transactions[p]
             /\ cursor_after'[p] = cursor_after[p]]_vars

\* C30: the first frame written on a connection is `connect`, and no second
\* `connect` follows it, however many sub and unsub frames are written.
C30_ConnectFirstAndOnce ==
    wire # <<>> =>
        /\ wire[1].op = "connect"
        /\ \A k \in 2..Len(wire) : wire[k].op # "connect"

C30_Witness ==
    /\ flow \in {"pager", "gather"}
    /\ Cardinality({k \in 1..Len(wire) : wire[k].op = "sub"}) >= 2
    /\ \A p \in pagers : pc[p] = "done"

\* C31: when load_tokens found a session token, the stream is opened only
\* after a refresh was attempted and the refresh, or the re-login that
\* followed its failure, succeeded.
C31_StreamOnlyAfterRefreshOrLogin ==
    (/\ flow = "cli" /\ loadedPair.session # None
     /\ \E p \in pagers : pc[p] # "idle")
    => /\ refreshAttempted
       /\ lastAuth \in {"refresh_ok", "otp_ok"}

\* the parts of C31 that do not depend on a refresh token being stored: a
\* failed refresh is followed by login and verify_otp, and no stream is
\* opened after a login or verify_otp that failed
C31_NoStreamAfterFailedLogin ==
    (flow = "cli" /\ \E p \in pagers : pc[p] # "idle")
    => lastAuth \in {"refresh_ok", "otp_ok", "refresh_skipped"}

\* C32: on the threaded client the sub frames are on the wire in the order
\* in which their ids were allocated, that is, with increasing id.
C32_SubFramesInAllocationOrder ==
    flow \in {"threaded", "unsub_th"} =>
        \A i, j \in 1..Len(wire) :
            (i < j /\ wire[i].op = "sub" /\ wire[j].op = "sub") => wire[i].id < wire[j].id

\* listen hands the callback of main.py an A page for a registered id, and
\* the callback runs to its end
CbPageProcessed ==
    /\ flow = "callback" /\ tpc["reader"] = "idle" /\ tpc'["reader"] = "idle"
    /\ inbox # <<>> /\ inbox' = Tail(inbox)
    /\ Head(inbox).form = "reply" /\ Registered(Head(inbox).id)
    /\ Head(inbox).kind = "A" /\ Head(inbox).pl.shape = "page"

\* C33: when the callback flow has processed the page without a cursor,
\* every sub that was sent has its unsub on the wire and the subscription
\* table is empty.
C33_NoLiveSubscriptionAfterLastPage ==
    [][(CbPageProcessed /\ Head(inbox).pl.cur = "absent")
       => /\ subscriptions' = {}
          /\ \A k \in 1..sub_id_counter' :
                 \E i \in 1..Len(wire') : wire'[i].op = "unsub" /\ wire'[i].id = k]_vars

\* the part of C33 about the pages before the last: a page with a cursor
\* takes its own id out of the table and sends its unsub
C33_EarlierPagesClosed ==
    [][(CbPageProcessed /\ Head(inbox).pl.cur = "after")
       => /\ Head(inbox).id \notin subscriptions'
          /\ \E i \in 1..Len(wire') :
                 wire'[i].op = "unsub" /\ wire'[i].id = Head(inbox).id]_vars

\* a load_tokens call of either class returns
LoadReturns ==
    \/ flow = "cli" /\ mainPc = "load" /\ mainPc' # "load"
    \/ flow = "load" /\ mainPc \in {"client", "auth"} /\ mainPc' # mainPc

\* C34: load_tokens on a missing file does not raise, reports that no tokens
\* were found (Auth returns False; the client returns with what it had, and
\* main goes to the login when that is no session token), and leaves the
\* pair in memory and the file as they were.
C34_MissingFileIsAbsent ==
    [][(LoadReturns /\ tokenFile.state = "missing")
       => /\ session_token' = session_token /\ refresh_token' = refresh_token
          /\ tokenFile' = tokenFile
          /\ mainPc' # "raised"
          /\ mainPc = "auth" => mainPc' = "False"
          /\ flow = "cli" => mainPc' = "login"]_vars

C34_Witness ==
    /\ flow = "load" /\ tokenFile.state = "missing"
    /\ mainPc \in {"None", "False"}
    /\ session_token = "t2" /\ refresh_token = "t2"

\* the item's title or subtitle holds the word, in the spelling of the raw item
HasWord(t, raw) == t.title = raw \/ t.subtitle = raw

\* an item classify decides by its texts: no event type of the four tuples,
\* no merchant icon, and one of the three transfer words
TransferWordItem(t) ==
    /\ t.eventType \in {None, "UNKNOWN_EVENT"}
    /\ t.icon \in {None, "logos/bank"}
    /\ HasWord(t, "Transfer") \/ HasWord(t, "Deposit") \/ HasWord(t, "Withdrawal")

\* the amount is missing, has no value, or is 0
ZeroOrMissing(amount) ==
    amount.is \in {"absent", "empty"} \/ (amount.is = "number" /\ amount.n = 0)

\* C35: an item without recognised event type and merchant icon whose title
\* or subtitle holds transfer, deposit or withdrawal is classified transfer_in
\* or transfer_out, never investment; with `transfer` and an amount that is
\* zero or missing it is transfer_out.
C35_TransferWordsWin ==
    (flow = "classify" /\ category # "pending" /\ TransferWordItem(txn))
    => /\ category \in {"transfer_in", "transfer_out"}
       /\ (HasWord(txn, "Transfer") /\ ZeroOrMissing(txn.amount)) => category = "transfer_out"

\* C35 for the items whose amount.value is not null
C35_TransferWordsWinOnNumbers ==
    (/\ flow = "classify" /\ category # "pending" /\ TransferWordItem(txn)
     /\ txn.amount.is # "null")
    => /\ category \in {"transfer_in", "transfer_out"}
       /\ (HasWord(txn, "Transfer") /\ ZeroOrMissing(txn.amount)) => category = "transfer_out"

AuthCallFails ==
    /\ flow = "cli" /\ mainPc \in {"login", "otp", "refresh"} /\ mainPc' # mainPc
    /\ lastAuth' \in {"login_failed", "otp_failed", "refresh_failed"}

\* C37: a login, verify_otp or refresh_session call that ends with an HTTP
\* error status leaves session token, refresh token and the token file as
\* they were before the call.
C37_FailedAuthChangesNothing ==
    [][AuthCallFails => UNCHANGED <<session_token, refresh_token, tokenFile>>]_vars

C37_Witness ==
    /\ flow = "cli" /\ mainPc = "close"
    /\ lastAuth \in {"login_failed", "otp_failed"}
    /\ refreshAttempted
    /\ session_token = "t1" /\ refresh_token = "t1"
    /\ tokenFile = TokenFile("ok", "t1", "t1")

\* a step of a callback client writes the sub frame of id `k`
WritesSub(k) ==
    \E i \in 1..Len(wire') : i > Len(wire) /\ wire'[i].op = "sub" /\ wire'[i].id = k

\* unsubscribe has taken id `k` out of the table: its unsub frame is on the
\* wire, or the reader thread is between the delete and the send
TakenOut(k) ==
    \/ HasOut("unsub", k)
    \/ tpc["reader"] = "unsub_send" /\ local["reader"].msg_id = k

\* C38: in both callback clients the id is put in the subscription table
\* before its sub frame is written: in the step that writes the frame the id
\* is in the table, unless an unsubscribe has taken it out again; and a
\* callback runs only for an id that is in the table.
C38_RegisteredBeforeSubWritten ==
    [][(flow \in {"threaded", "callback", "unsub_th", "unsub_cb"}) =>
          ((\A k \in 1..sub_id_counter' :
                WritesSub(k) => (k \in subscriptions' \/ TakenOut(k)'))
           /\ (delivered' > delivered
                  => (inbox # <<>> /\ Head(inbox).id \in subscriptions)))]_vars

\* a sub frame is on the wire while a frame for its id, registered before the
\* frame was written, waits to be read
C38_Witness ==
    /\ flow \in {"threaded", "callback"}
    /\ inbox # <<>> /\ Head(inbox).form = "reply" /\ Head(inbox).id = 2
    /\ HasOut("sub", 2) /\ 2 \in subscriptions

\* C39: on the threaded client the reader does not hold the lock while a
\* callback runs or while the callback's subscribe or unsubscribe waits for
\* the lock; whoever holds the lock is inside subscribe's locked block, which
\* ends without waiting for anything. No thread ever waits for a lock that
\* will not be released.
C39_CallbackRunsWithoutLock ==
    flow \in {"threaded", "unsub_th"} =>
        /\ tpc["reader"] \in {"callback", "sub", "cb_unsub"} => lock # "reader"
        /\ \A t \in Threads : lock = t => tpc[t] = "sub_locked"
        /\ \A t \in Threads : tpc[t] = "sub" => lock # t

\* the pagination callback, called by the reader, is inside subscribe's
\* locked block
C39_Witness ==
    /\ flow = "threaded" /\ delivered >= 1
    /\ tpc["reader"] = "sub_locked" /\ lock = "reader"

====
